------------------------- MODULE DurableOutboxProofs -------------------------
(***************************************************************************)
(* DurableOutbox for any number of envelopes, any capacity and any faults: *)
(* nothing that was queued is lost, what the cloud stored at a sequence is *)
(* the row at that sequence, and memory and disk agree.  The cloud starts  *)
(* empty (CloudStart = 0); the outbox_rebuilt run shows that these fail    *)
(* for a device whose cloud already stored an earlier installation.        *)
(***************************************************************************)
EXTENDS DurableOutbox, UplinkStateProofs, WellFoundedInduction, FiniteSetTheorems, TLAPS

\* The journal in memory: what it indexes lies within the sequences it gave
\* out, and a declared loss is no record any more, so that the next eviction
\* is not refused.  A stopped process has none.
MemoryShape ==
    /\ committed_through <= last_allocated
    /\ DOMAIN records \subseteq 1..last_allocated
    /\ DOMAIN pending_gaps \subseteq 1..last_allocated
    /\ DOMAIN pending_gaps \cap DOMAIN records = {}
    /\ accepted_gaps = EmptyMap
    /\ ~up => op = Idle /\ records = EmptyMap

\* No envelope has two rows (UNIQUE(envelope_id)).
RowsUnique ==
    \A s, t \in DOMAIN rows : rows[s].envelope_id = rows[t].envelope_id => s = t

\* A row and the record of the same sequence are the same.
RowsMatchRecords ==
    \A s \in DOMAIN rows : s \in DOMAIN records => rows[s] = records[s]

\* The row of an accepted envelope the cloud lacks is Protected.
AcceptedProtected ==
    \A s \in DOMAIN rows :
        rows[s].envelope_id \in accepted \ CloudStored => rows[s].retention = "Protected"

\* What the operation in progress still has to do.
OpShape ==
    /\ op.todo \subseteq 1..last_allocated
    /\ op.step \in {"evict_delete", "evict_gap", "evict_cursor", "ack_delete"} =>
           op.todo # {}
    /\ op.step = "append_cursor" =>
           NextSequence \in DOMAIN rows /\ rows[NextSequence] = op.record
    /\ op.step = "evict_delete" =>
           \A s \in op.todo \cap DOMAIN rows : rows[s].retention = "Evictable"
    /\ op.step = "ack_delete" => \A s \in op.todo : s <= CloudCursor

\* The cursor on disk is that of the last sequence given out, at most one row
\* lies above it (an append that was cut short), and so does what the cloud
\* has of it.
CursorShape ==
    /\ up => cursor.last = last_allocated
    /\ DOMAIN rows \subseteq 1..(cursor.last + 1)
    /\ CloudCursor <= cursor.last + 1
    /\ CloudCursor = cursor.last + 1 => CloudCursor \in DOMAIN rows

\* The part of the inductive invariant behind NoLoss and CloudMatches.
SafetyInv ==
    /\ OutboxTypeOK
    /\ MemoryShape
    /\ RowsUnique
    /\ RowsMatchRecords
    /\ AcceptedProtected
    /\ OpShape
    /\ CursorShape
    /\ CloudMatches
    /\ NoLoss

\* What differs between memory and disk while an operation is in progress, when
\* none was cut short since the last repair.
Agreement ==
    (up /\ ~damaged) =>
        /\ op.step \in {"idle", "evict", "evict_gap", "evict_cursor", "ack_cursor"} =>
               rows = records
        /\ op.step = "append_cursor" => rows = Put(records, NextSequence, op.record)
        /\ op.step \in {"evict_delete", "ack_delete"} => records = Without(rows, op.todo)
        /\ op.step \notin {"ack_delete", "ack_cursor"} =>
               cursor.committed = committed_through

\* Until a gap is on disk, or an eviction is about to put one there, no
\* sequence above the committed cursor is without its record.
NoHoles ==
    (~damaged /\ gap_rows = {}) =>
        /\ ~up => DOMAIN rows = (cursor.committed + 1)..cursor.last
        /\ op.step # "evict_cursor"
        /\ (up /\ op.step \notin {"evict_delete", "evict_gap"}) =>
               DOMAIN records = (committed_through + 1)..last_allocated

\* The queue m is within the capacity or has nothing to evict.
EvictedEnough(m) == Cardinality(DOMAIN m) <= MaxRecords \/ EvictableIn(m) = {}

\* What an append adds is what evict_if_needed takes away.
Capacity ==
    /\ damaged => cut_short
    /\ ~cut_short =>
          /\ ~up => EvictedEnough(rows)
          /\ op.step = "evict" =>
                 \/ Retained <= MaxRecords + 1
                 \/ EvictableIn(records) \subseteq {last_allocated}
          /\ (up /\ op.step # "evict") => EvictedEnough(records)
          /\ op.step \in {"evict_delete", "evict_gap", "evict_cursor"} =>
                 pending_gaps # EmptyMap
          /\ (up /\ op.step # "evict" /\ pending_gaps = EmptyMap
                /\ Retained > MaxRecords) => warned_at # 0

\* The part behind OutboxInv.
AgreementInv == Agreement /\ NoHoles /\ Capacity

-----------------------------------------------------------------------------
(* Maps, minima and ranks *)

\* Min of a finite set of numbers is in the set and below the others.
LEMMA MinIsLeast ==
    ASSUME NEW S, S \subseteq Int, IsFiniteSet(S), S # {}
    PROVE  Min(S) \in S /\ \A y \in S : Min(S) <= y
<1> DEFINE Below(x) == {t \in S : t <= x}
           T == {Below(x) : x \in S}
<1>1. T \subseteq FiniteSubsetsOf(S) /\ T # {}
    <2>1. ASSUME NEW x \in S PROVE Below(x) \in FiniteSubsetsOf(S)
        BY FS_Subset DEF FiniteSubsetsOf
    <2> QED
        BY <2>1
<1>2. PICK U \in T : \A V \in T : ~(<<V, U>> \in StrictSubsetOrdering(S))
    <2> HIDE DEF T
    <2> QED
        BY <1>1, WFMin, FS_StrictSubsetOrderingWellFounded
<1>3. PICK x \in S : U = Below(x)
    OBVIOUS
<1>4. ASSUME NEW y \in S, ~(x <= y) PROVE FALSE
    <2>1. Below(y) \in T
        OBVIOUS
    <2>2. x <= x /\ \A z \in S : z <= y => z <= x
        BY <1>4
    <2>3. Below(y) \subseteq U /\ x \in U /\ x \notin Below(y)
        BY <1>3, <1>4, <2>2
    <2>4. <<Below(y), U>> \in StrictSubsetOrdering(S)
        BY <2>3, <1>3 DEF StrictSubsetOrdering
    <2> QED
        BY <2>1, <2>4, <1>2
<1> QED
    BY <1>4 DEF Min

\* A map with one more key is a map.
LEMMA PutMap ==
    ASSUME NEW S, NEW T, NEW m, IsMap(m, S, T), NEW k \in S, NEW v \in T
    PROVE  /\ IsMap(Put(m, k, v), S, T)
           /\ DOMAIN Put(m, k, v) = DOMAIN m \cup {k}
           /\ Put(m, k, v)[k] = v
           /\ \A x \in DOMAIN m : x # k => Put(m, k, v)[x] = m[x]
BY DEF IsMap, Put

\* A map with keys taken away is a map.
LEMMA WithoutMap ==
    ASSUME NEW S, NEW T, NEW m, IsMap(m, S, T), NEW X
    PROVE  /\ IsMap(Without(m, X), S, T)
           /\ DOMAIN Without(m, X) = DOMAIN m \ X
           /\ \A x \in DOMAIN m \ X : Without(m, X)[x] = m[x]
BY DEF IsMap, Without

\* The map with no keys.
LEMMA EmptyIsMap ==
    ASSUME NEW S, NEW T
    PROVE  IsMap(EmptyMap, S, T) /\ DOMAIN EmptyMap = {}
BY DEF IsMap, EmptyMap

\* A map over the sequences is finite.
LEMMA MapFinite ==
    ASSUME NEW m, NEW T, IsMap(m, Seqs, T)
    PROVE  IsFiniteSet(DOMAIN m) /\ Cardinality(DOMAIN m) \in Nat
<1>1. IsFiniteSet(Seqs)
    BY FS_Interval, MaxSeqAssumption DEF Seqs
<1>2. IsFiniteSet(DOMAIN m)
    BY <1>1, FS_Subset DEF IsMap
<1> QED
    BY <1>2, FS_CardinalityType

\* The ranks of the members of a finite set of numbers are 1..n, each taken
\* once: the renumbering of uplink-rescue neither drops nor doubles a row.
LEMMA RankBijection ==
    ASSUME NEW S, S \subseteq Int, IsFiniteSet(S)
    PROVE  /\ \A t \in S : RankIn(S, t) \in 1..Cardinality(S)
           /\ \A t, u \in S : RankIn(S, t) = RankIn(S, u) => t = u
           /\ \A k \in 1..Cardinality(S) : \E t \in S : RankIn(S, t) = k
<1> DEFINE n == Cardinality(S)
           Below(t) == {u \in S : u <= t}
           f == [t \in S |-> RankIn(S, t)]
<1>1. n \in Nat
    BY FS_CardinalityType
<1>2. ASSUME NEW t \in S
      PROVE  IsFiniteSet(Below(t)) /\ RankIn(S, t) = Cardinality(Below(t))
    BY FS_Subset DEF RankIn
<1>3. ASSUME NEW t \in S PROVE RankIn(S, t) \in 1..n
    <2>1. Cardinality(Below(t)) <= n /\ Cardinality(Below(t)) \in Nat
        BY <1>2, FS_Subset, FS_CardinalityType
    <2>2. t \in Below(t)
        OBVIOUS
    <2>3. Cardinality(Below(t)) # 0
        BY <2>2, <1>2, FS_EmptySet
    <2> QED
        BY <1>1, <1>2, <2>1, <2>3
<1>4. ASSUME NEW t \in S, NEW u \in S, t < u PROVE RankIn(S, t) # RankIn(S, u)
    <2>1. u <= u /\ ~(u <= t) /\ \A z \in S : z <= t => z <= u
        BY <1>4
    <2>2. Below(t) \subseteq Below(u) /\ u \in Below(u) /\ u \notin Below(t)
        BY <2>1
    <2>3. Cardinality(Below(u)) # Cardinality(Below(t))
        BY <2>2, <1>2, FS_Subset
    <2> QED
        BY <2>3, <1>2
<1>5. \A t, u \in S : RankIn(S, t) = RankIn(S, u) => t = u
    BY <1>4
<1>6. IsFiniteSet(1..n) /\ Cardinality(1..n) = n
    BY <1>1, FS_Interval
<1>7. f \in Injection(S, 1..n)
    BY <1>3, <1>5 DEF Injection, IsInjective
<1>8. f \in Surjection(S, 1..n)
    BY <1>6, <1>7, FS_Injection
<1>9. \A k \in 1..n : \E t \in S : RankIn(S, t) = k
    BY <1>8 DEF Surjection
<1> QED
    BY <1>3, <1>5, <1>9

-----------------------------------------------------------------------------
(* SafetyInv, action by action *)

\* The journal in memory keeps its types and shape when nothing touches it.
LEMMA MemoryKept ==
    ASSUME UplinkTypeOK, UNCHANGED uplinkVars
    PROVE  UplinkTypeOK'
BY DEF UplinkTypeOK, uplinkVars, gapVars, hintVars

\* The counters are numbers, and the cursors are within the sequences.
LEMMA Numbers ==
    ASSUME OutboxTypeOK
    PROVE  /\ CloudCursor \in Nat /\ last_allocated \in Nat /\ committed_through \in Nat
           /\ cursor.last \in Nat /\ cursor.committed \in Nat /\ MaxSeq \in Nat
           /\ cursor.last <= MaxSeq /\ last_allocated <= MaxSeq
           /\ Seqs \subseteq Nat /\ NextSequence \in Nat
BY MaxSeqAssumption
   DEF OutboxTypeOK, UplinkTypeOK, Cursors, Seqs, CloudCursor, NextSequence

\* An empty outbox with an empty cloud.
LEMMA OutboxInitSafe == ASSUME OutboxInit, CloudStart = 0 PROVE SafetyInv
<1> USE DEF OutboxInit, UplinkInit
<1>0. \A S, T : IsMap(EmptyMap, S, T)
    BY EmptyIsMap
<1>1. UplinkTypeOK
    BY InitInv DEF UplinkInv
<1>2. cloud_log = <<>> /\ CloudCursor = 0 /\ CloudStored = {}
    BY DEF CloudCursor, CloudStored
<1>3. op = Idle /\ op.step = "idle" /\ op.todo = {}
    BY DEF Idle, Op
<1>4. OutboxTypeOK
    <2>1. op \in [step : Steps, record : UplinkRecord \cup {NoRecord}, todo : SUBSET Seqs]
        BY DEF Idle, Op, Steps
    <2>2. cursor \in [committed : Cursors, last : Cursors]
        BY MaxSeqAssumption DEF Cursors
    <2>3. cloud_log \in Seq(EnvelopeIds \cup {OldEnvelope})
        BY <1>2
    <2> QED
        BY <1>0, <1>1, <2>1, <2>2, <2>3 DEF OutboxTypeOK
<1>5. MemoryShape
    BY EmptyIsMap DEF MemoryShape
<1>6. RowsUnique /\ RowsMatchRecords /\ AcceptedProtected /\ CloudMatches /\ NoLoss
    BY EmptyIsMap DEF RowsUnique, RowsMatchRecords, AcceptedProtected, CloudMatches, NoLoss
<1>7. OpShape
    BY <1>3 DEF OpShape
<1>8. CursorShape
    BY <1>2, EmptyIsMap DEF CursorShape
<1> QED
    BY <1>4, <1>5, <1>6, <1>7, <1>8 DEF SafetyInv

\* append, INSERT: the sequence is free and above what the cloud has stored,
\* the envelope has no other row, and if it was accepted before, the cloud has it.
LEMMA AppendEnqueueSafe ==
    ASSUME SafetyInv, NEW id \in EnvelopeIds, NEW r \in Retentions, AppendEnqueue(id, r)
    PROVE  SafetyInv'
<1> DEFINE record == [envelope_id |-> id, retention |-> r]
<1>1. /\ up /\ last_allocated # MaxSeq
      /\ NextSequence \notin DOMAIN rows /\ id \notin RowIds
      /\ rows' = Put(rows, NextSequence, record)
      /\ op' = Op("append_cursor", record, {})
      /\ UNCHANGED <<uplinkVars, up, warned_at, cursor, gap_rows, cloud_log, historyVars>>
    BY DEF AppendEnqueue, At, AppendRefused, InsertConflict, SequenceExhausted
<1>2. OutboxTypeOK /\ MemoryShape /\ RowsUnique /\ RowsMatchRecords /\ AcceptedProtected
      /\ OpShape /\ CursorShape /\ CloudMatches /\ NoLoss
    BY DEF SafetyInv
<1>3. UNCHANGED <<last_allocated, records, committed_through, pending_gaps, accepted_gaps,
                  accepted, damaged, cut_short, CloudCursor, CloudStored, NextSequence>>
    BY <1>1 DEF uplinkVars, gapVars, historyVars, CloudCursor, CloudStored, NextSequence
<1>4. record \in UplinkRecord /\ NextSequence \in Seqs
    BY <1>1, <1>2, OutboxAssumption, Numbers
       DEF UplinkRecord, OutboxTypeOK, UplinkTypeOK, Seqs, NextSequence, Cursors
<1>5. /\ IsMap(rows', Seqs, UplinkRecord)
      /\ DOMAIN rows' = DOMAIN rows \cup {NextSequence}
      /\ rows'[NextSequence] = record
      /\ \A s \in DOMAIN rows : rows'[s] = rows[s]
    <2>1. IsMap(rows, Seqs, UplinkRecord) /\ rows' = Put(rows, NextSequence, record)
        BY <1>1, <1>2 DEF OutboxTypeOK
    <2> HIDE DEF record
    <2> QED
        BY <1>1, <1>4, <2>1 DEF IsMap, Put
<1>6. CloudCursor < NextSequence /\ NextSequence = cursor.last + 1
    BY <1>1, <1>2, Numbers DEF CursorShape, NextSequence
<1>7. op'.step = "append_cursor" /\ op'.record = record /\ op'.todo = {}
    BY <1>1 DEF Op
<1>8. OutboxTypeOK'
    <2>1. op' \in [step : Steps, record : UplinkRecord \cup {NoRecord}, todo : SUBSET Seqs]
        BY <1>1, <1>4 DEF Op, Steps
    <2> QED
        BY <1>1, <1>2, <1>5, <2>1, MemoryKept DEF OutboxTypeOK, historyVars
<1>9. MemoryShape'
    BY <1>1, <1>2, <1>3 DEF MemoryShape
<1>10. RowsUnique'
    BY <1>1, <1>2, <1>5 DEF RowsUnique, RowIds
<1>11. RowsMatchRecords'
    <2>1. NextSequence \notin DOMAIN records
        BY <1>2, Numbers DEF MemoryShape, NextSequence
    <2> QED
        BY <1>2, <1>3, <1>5, <2>1 DEF RowsMatchRecords
<1>12. AcceptedProtected'
    <2>1. id \notin accepted \ CloudStored
        BY <1>1, <1>2 DEF NoLoss
    <2> QED
        BY <1>2, <1>3, <1>5, <2>1 DEF AcceptedProtected
<1>13. OpShape'
    BY <1>3, <1>5, <1>7 DEF OpShape
<1>14. CursorShape'
    BY <1>1, <1>2, <1>3, <1>5, <1>6, Numbers DEF CursorShape
<1>15. CloudMatches'
    BY <1>1, <1>2, <1>3, <1>5, <1>6, Numbers DEF CloudMatches
<1>16. NoLoss'
    BY <1>2, <1>3, <1>5 DEF NoLoss, RowIds
<1> QED
    BY <1>8, <1>9, <1>10, <1>11, <1>12, <1>13, <1>14, <1>15, <1>16 DEF SafetyInv

\* What is said of the rows alone survives a step that touches neither the rows
\* nor the cloud and only takes records out of memory.
LEMMA RowsKept ==
    ASSUME SafetyInv, UNCHANGED <<rows, cloud_log, accepted>>,
           \A s \in DOMAIN records' : s \in DOMAIN records /\ records'[s] = records[s]
    PROVE  /\ RowsUnique' /\ RowsMatchRecords' /\ AcceptedProtected'
           /\ CloudMatches' /\ NoLoss'
           /\ UNCHANGED <<CloudCursor, CloudStored, RowIds>>
<1>1. UNCHANGED <<CloudCursor, CloudStored, RowIds>>
    BY DEF CloudCursor, CloudStored, RowIds
<1>2. RowsUnique' /\ RowsMatchRecords'
    BY DEF SafetyInv, RowsUnique, RowsMatchRecords
<1>3. AcceptedProtected' /\ CloudMatches' /\ NoLoss'
    BY <1>1 DEF SafetyInv, AcceptedProtected, CloudMatches, NoLoss
<1> QED
    BY <1>1, <1>2, <1>3

\* A step that deletes rows of sequences given out, none of them the only copy
\* of an accepted envelope, and changes nothing else but the operation.
LEMMA RowsDeleted ==
    ASSUME SafetyInv, NEW X, X \subseteq 1..last_allocated, up,
           rows' = Without(rows, X),
           \A s \in X \cap DOMAIN rows : rows[s].envelope_id \notin accepted \ CloudStored,
           UNCHANGED <<uplinkVars, up, warned_at, cursor, gap_rows, cloud_log, historyVars>>,
           op' \in [step : Steps, record : UplinkRecord \cup {NoRecord}, todo : SUBSET Seqs],
           OpShape'
    PROVE  SafetyInv'
<1>1. UNCHANGED <<last_allocated, records, committed_through, pending_gaps, accepted_gaps,
                  accepted, damaged, cut_short, CloudCursor, CloudStored>>
    BY DEF uplinkVars, gapVars, historyVars, CloudCursor, CloudStored
<1>2. /\ IsMap(rows', Seqs, UplinkRecord)
      /\ DOMAIN rows' = DOMAIN rows \ X
      /\ \A s \in DOMAIN rows' : rows'[s] = rows[s]
    BY DEF SafetyInv, OutboxTypeOK, IsMap, Without
<1>3. OutboxTypeOK'
    BY <1>2, MemoryKept DEF SafetyInv, OutboxTypeOK, historyVars
<1>4. MemoryShape'
    BY <1>1 DEF SafetyInv, MemoryShape
<1>5. RowsUnique' /\ RowsMatchRecords' /\ AcceptedProtected' /\ CloudMatches'
    BY <1>1, <1>2
       DEF SafetyInv, RowsUnique, RowsMatchRecords, AcceptedProtected, CloudMatches
<1>6. CursorShape'
    BY <1>1, <1>2, Numbers DEF SafetyInv, CursorShape
<1>7. NoLoss'
    <2>1. SUFFICES ASSUME NEW id \in accepted, id \notin CloudStored PROVE id \in RowIds'
        BY <1>1 DEF NoLoss
    <2>2. PICK s \in DOMAIN rows : rows[s].envelope_id = id
        BY <2>1 DEF SafetyInv, NoLoss, RowIds
    <2>3. s \in DOMAIN rows' /\ rows'[s].envelope_id = id
        BY <2>1, <2>2, <1>2
    <2> QED
        BY <2>3 DEF RowIds
<1> QED
    BY <1>3, <1>4, <1>5, <1>6, <1>7 DEF SafetyInv

\* append, cursor and memory: the record in memory is the row that was inserted,
\* and from here on the envelope counts as accepted.
LEMMA AppendPublishSafe == ASSUME SafetyInv, AppendPublish PROVE SafetyInv'
<1> USE DEF SafetyInv
<1>1. /\ up /\ op.step = "append_cursor"
      /\ cursor' = [committed |-> committed_through, last |-> NextSequence]
      /\ last_allocated' = NextSequence
      /\ envelope_sequences' = Put(envelope_sequences, op.record.envelope_id, NextSequence)
      /\ records' = Put(records, NextSequence, op.record)
      /\ op' = Op("evict", NoRecord, {})
      /\ accepted' = IF op.record.retention = "Protected"
                     THEN accepted \cup {op.record.envelope_id} ELSE accepted
      /\ UNCHANGED <<committed_through, hintVars, gapVars, up, warned_at, rows, gap_rows,
                     cloud_log, damaged, cut_short>>
    <2>1. op.record \in UplinkRecord
        BY DEF AppendPublish, At, OpShape, OutboxTypeOK, IsMap
    <2>2. op.record = [envelope_id |-> op.record.envelope_id, retention |-> op.record.retention]
        BY <2>1 DEF UplinkRecord
    <2> QED
        BY <2>2 DEF AppendPublish, At, CursorAfterAppend, AppendRecord
<1>2. NextSequence \in DOMAIN rows /\ rows[NextSequence] = op.record
      /\ NextSequence \in Seqs /\ op.record \in UplinkRecord
    BY <1>1 DEF OpShape, OutboxTypeOK, IsMap
<1>3. UNCHANGED <<CloudCursor, CloudStored, RowIds>>
    BY <1>1 DEF CloudCursor, CloudStored, RowIds
<1>4. /\ IsMap(records', Seqs, UplinkRecord)
      /\ DOMAIN records' = DOMAIN records \cup {NextSequence}
      /\ records'[NextSequence] = op.record
      /\ \A s \in DOMAIN records : s # NextSequence => records'[s] = records[s]
    BY <1>1, <1>2 DEF OutboxTypeOK, UplinkTypeOK, IsMap, Put
<1>5. op'.step = "evict" /\ op'.todo = {}
    BY <1>1 DEF Op
<1>6. OutboxTypeOK'
    <2>1. IsMap(envelope_sequences', EnvelopeIds, Seqs)
        BY <1>1, <1>2 DEF OutboxTypeOK, UplinkTypeOK, IsMap, Put, UplinkRecord
    <2>2. last_allocated' \in Cursors
        BY <1>1, <1>2 DEF Seqs, Cursors
    <2>3. UplinkTypeOK'
        BY <1>1, <1>4, <2>1, <2>2 DEF OutboxTypeOK, UplinkTypeOK, gapVars, hintVars
    <2>4. op' \in [step : Steps, record : UplinkRecord \cup {NoRecord}, todo : SUBSET Seqs]
        BY <1>1 DEF Op, Steps
    <2>5. cursor' \in [committed : Cursors, last : Cursors]
        BY <1>1, <2>2 DEF OutboxTypeOK, UplinkTypeOK
    <2>6. accepted' \subseteq EnvelopeIds
        BY <1>1, <1>2 DEF OutboxTypeOK, UplinkRecord
    <2> QED
        BY <1>1, <2>3, <2>4, <2>5, <2>6 DEF OutboxTypeOK
<1>7. MemoryShape'
    BY <1>1, <1>4, Numbers DEF MemoryShape, NextSequence, gapVars
<1>8. RowsUnique' /\ RowsMatchRecords'
    BY <1>1, <1>2, <1>4 DEF RowsUnique, RowsMatchRecords
<1>9. AcceptedProtected'
    BY <1>1, <1>2, <1>3 DEF AcceptedProtected, RowsUnique
<1>10. OpShape'
    BY <1>5 DEF OpShape
<1>11. CursorShape'
    BY <1>1, <1>2, <1>3, Numbers DEF CursorShape, NextSequence
<1>12. CloudMatches'
    BY <1>1, <1>3 DEF CloudMatches
<1>13. NoLoss'
    BY <1>1, <1>2, <1>3 DEF NoLoss, RowIds
<1> QED
    BY <1>6, <1>7, <1>8, <1>9, <1>10, <1>11, <1>12, <1>13

\* A step of the operation in progress that writes neither rows nor memory.
LEMMA OpStepSafe ==
    ASSUME SafetyInv, UNCHANGED <<uplinkVars, up, rows, cloud_log, accepted>>,
           up,
           op' \in [step : Steps, record : UplinkRecord \cup {NoRecord}, todo : SUBSET Seqs],
           OpShape',
           warned_at' \in Nat, gap_rows' \subseteq Seqs,
           cursor' \in [committed : Cursors, last : Cursors], cursor'.last = last_allocated,
           damaged' \in BOOLEAN, cut_short' \in BOOLEAN
    PROVE  SafetyInv'
<1>1. UNCHANGED <<last_allocated, records, committed_through, pending_gaps, accepted_gaps,
                  CloudCursor>>
    BY DEF uplinkVars, gapVars, CloudCursor
<1>2. RowsUnique' /\ RowsMatchRecords' /\ AcceptedProtected' /\ CloudMatches' /\ NoLoss'
    BY <1>1, RowsKept
<1>3. OutboxTypeOK'
    BY MemoryKept DEF SafetyInv, OutboxTypeOK
<1>4. MemoryShape'
    BY <1>1 DEF SafetyInv, MemoryShape
<1>5. CursorShape'
    BY <1>1, Numbers DEF SafetyInv, CursorShape
<1> QED
    BY <1>2, <1>3, <1>4, <1>5 DEF SafetyInv

\* What an operation that ended leaves behind.
LEMMA IdleShape ==
    /\ Idle \in [step : Steps, record : UplinkRecord \cup {NoRecord}, todo : SUBSET Seqs]
    /\ Idle.step = "idle" /\ Idle.todo = {}
    /\ op' = Idle => OpShape'
BY DEF Idle, Op, Steps, OpShape

\* evict_if_needed: the record that becomes a loss is evictable on disk too.
LEMMA EvictIfNeededSafe == ASSUME SafetyInv, EvictIfNeeded PROVE SafetyInv'
<1> USE DEF SafetyInv
<1>1. /\ up /\ op.step = "evict"
      /\ UNCHANGED <<up, rows, cursor, gap_rows, cloud_log, accepted, damaged, cut_short>>
    BY DEF EvictIfNeeded, At, diskVars, historyVars
<1>2. cursor.last = last_allocated
    BY <1>1 DEF CursorShape
<1>3. CASE WithinCapacity
    <2>1. warned_at' \in Nat /\ op' = Idle /\ UNCHANGED uplinkVars
        BY <1>3 DEF WithinCapacity
    <2> QED
        BY <1>1, <1>2, <2>1, IdleShape, OpStepSafe DEF OutboxTypeOK
<1>4. CASE Overflowing
    <2>1. warned_at' \in Nat
        BY <1>4, MapFinite DEF Overflowing, WarnedAfter, Retained, OutboxTypeOK, UplinkTypeOK
    <2>2. op' = Idle /\ UNCHANGED uplinkVars
        BY <1>4 DEF Overflowing
    <2> QED
        BY <1>1, <1>2, <2>1, <2>2, IdleShape, OpStepSafe DEF OutboxTypeOK
<1>5. CASE EvictOldest
    <2> DEFINE s == Min(EvictableIn(records))
    <2>1. /\ s \in DOMAIN records /\ records[s].retention = "Evictable"
          /\ s \in Seqs
        <3>1. EvictableIn(records) \subseteq DOMAIN records /\ DOMAIN records \subseteq Seqs
            BY DEF EvictableIn, OutboxTypeOK, UplinkTypeOK, IsMap
        <3>2. IsFiniteSet(EvictableIn(records)) /\ EvictableIn(records) \subseteq Int
            BY <3>1, MapFinite, FS_Subset, Numbers DEF OutboxTypeOK, UplinkTypeOK
        <3>3. s \in EvictableIn(records)
            BY <1>5, <3>2, MinIsLeast DEF EvictOldest
        <3> QED
            BY <3>1, <3>3 DEF EvictableIn
    <2> HIDE DEF s
    <2>2. /\ DeclareLoss(s, {s})
          /\ op' = Op("evict_delete", NoRecord, {s})
          /\ UNCHANGED warned_at
        BY <1>5 DEF EvictOldest, s
    <2>3. ~LossRefused(s, {s})
        BY <2>1, EmptyIsMap DEF LossRefused, Evictable, MemoryShape
    <2>4. /\ records' = Without(records, {s})
          /\ pending_gaps' = Put(pending_gaps, s, {s})
          /\ UNCHANGED <<last_allocated, committed_through, envelope_sequences, hintVars,
                         accepted_gaps, accepted_loss_sequences>>
        BY <2>2, <2>3 DEF DeclareLoss
    <2>5. /\ IsMap(records', Seqs, UplinkRecord)
          /\ DOMAIN records' = DOMAIN records \ {s}
          /\ \A t \in DOMAIN records' : records'[t] = records[t]
        BY <2>4 DEF OutboxTypeOK, UplinkTypeOK, IsMap, Without
    <2>6. /\ IsMap(pending_gaps', GapIds, SUBSET Seqs)
          /\ DOMAIN pending_gaps' = DOMAIN pending_gaps \cup {s}
        BY <2>1, <2>4, OutboxAssumption DEF OutboxTypeOK, UplinkTypeOK, IsMap, Put
    <2>7. op'.step = "evict_delete" /\ op'.todo = {s}
        BY <2>2 DEF Op
    <2>8. OutboxTypeOK'
        <3>1. UplinkTypeOK'
            BY <2>4, <2>5, <2>6 DEF OutboxTypeOK, UplinkTypeOK, hintVars
        <3>2. op' \in [step : Steps, record : UplinkRecord \cup {NoRecord}, todo : SUBSET Seqs]
            BY <2>1, <2>2 DEF Op, Steps
        <3> QED
            BY <1>1, <2>2, <3>1, <3>2 DEF OutboxTypeOK
    <2>9. MemoryShape'
        BY <1>1, <2>1, <2>4, <2>5, <2>6 DEF MemoryShape
    <2>10. RowsUnique' /\ RowsMatchRecords' /\ AcceptedProtected' /\ CloudMatches' /\ NoLoss'
           /\ UNCHANGED CloudCursor
        BY <1>1, <2>5, RowsKept
    <2>11. OpShape'
        BY <1>1, <2>1, <2>4, <2>7 DEF OpShape, MemoryShape, RowsMatchRecords
    <2>12. CursorShape'
        BY <1>1, <2>4, <2>10 DEF CursorShape
    <2> QED
        BY <2>8, <2>9, <2>10, <2>11, <2>12
<1> QED
    BY <1>3, <1>4, <1>5 DEF EvictIfNeeded

\* evict_if_needed, DELETE: an evictable row is no accepted envelope's.
LEMMA EvictDeleteSafe == ASSUME SafetyInv, EvictDelete PROVE SafetyInv'
<1> USE DEF SafetyInv
<1>1. /\ up /\ op.step = "evict_delete"
      /\ rows' = Without(rows, op.todo)
      /\ op' = [op EXCEPT !.step = "evict_gap"]
      /\ UNCHANGED <<uplinkVars, up, warned_at, cursor, gap_rows, cloud_log, historyVars>>
    BY DEF EvictDelete, At
<1>2. /\ op' \in [step : Steps, record : UplinkRecord \cup {NoRecord}, todo : SUBSET Seqs]
      /\ op'.step = "evict_gap" /\ op'.todo = op.todo
    BY <1>1 DEF OutboxTypeOK, Steps
<1>3. OpShape'
    BY <1>1, <1>2 DEF OpShape, uplinkVars
<1>4. \A s \in op.todo \cap DOMAIN rows : rows[s].envelope_id \notin accepted \ CloudStored
    BY <1>1 DEF OpShape, AcceptedProtected
<1>5. op.todo \subseteq 1..last_allocated
    BY DEF OpShape
<1> QED
    BY <1>1, <1>2, <1>3, <1>4, <1>5, RowsDeleted

\* evict_if_needed, INSERT of the gap and the cursor.
LEMMA EvictRestSafe == ASSUME SafetyInv, EvictInsertGap \/ EvictFinish PROVE SafetyInv'
<1> USE DEF SafetyInv
<1>1. CASE EvictInsertGap
    <2>1. /\ up /\ op.step = "evict_gap"
          /\ gap_rows' = gap_rows \cup op.todo
          /\ op' = [op EXCEPT !.step = "evict_cursor"]
          /\ UNCHANGED <<uplinkVars, up, warned_at, rows, cursor, cloud_log, historyVars>>
        BY <1>1 DEF EvictInsertGap, At
    <2>2. /\ op' \in [step : Steps, record : UplinkRecord \cup {NoRecord}, todo : SUBSET Seqs]
          /\ op'.step = "evict_cursor" /\ op'.todo = op.todo
        BY <2>1 DEF OutboxTypeOK, Steps
    <2>3. OpShape'
        BY <2>1, <2>2 DEF OpShape, uplinkVars
    <2>4. gap_rows' \subseteq Seqs /\ cursor'.last = last_allocated
        BY <2>1 DEF OutboxTypeOK, CursorShape
    <2> QED
        BY <2>1, <2>2, <2>3, <2>4, OpStepSafe DEF OutboxTypeOK, historyVars
<1>2. CASE EvictFinish
    <2>1. /\ up /\ op' = Idle /\ warned_at' = 0
          /\ cursor' = [committed |-> committed_through, last |-> last_allocated]
          /\ UNCHANGED <<uplinkVars, up, rows, gap_rows, cloud_log, historyVars>>
        BY <1>2 DEF EvictFinish, At, WriteCursor
    <2>2. cursor' \in [committed : Cursors, last : Cursors] /\ cursor'.last = last_allocated
        BY <2>1 DEF OutboxTypeOK, UplinkTypeOK
    <2> QED
        BY <2>1, <2>2, IdleShape, OpStepSafe DEF OutboxTypeOK, historyVars
<1> QED
    BY <1>1, <1>2

\* observe_ack, in memory: what is left to delete the cloud has stored.
LEMMA AckMemorySafe ==
    ASSUME SafetyInv, NEW c \in 0..CloudCursor, AckMemory(c)
    PROVE  SafetyInv'
<1> USE DEF SafetyInv
<1>1. /\ up /\ op.step = "idle"
      /\ ~AckRefused(c, {}) /\ ObserveAck(c, {}, FALSE)
      /\ op' = Op(IF AckTodo(c) = {} THEN "ack_cursor" ELSE "ack_delete", NoRecord, AckTodo(c))
      /\ UNCHANGED <<up, warned_at, rows, cursor, gap_rows, cloud_log, accepted, damaged,
                     cut_short>>
    BY DEF AckMemory, At, diskVars, historyVars
<1>2. /\ AckTodo(c) \subseteq DOMAIN records
      /\ \A s \in AckTodo(c) : s <= c
    BY Numbers DEF AckTodo, AckDeletes
<1>3. DOMAIN records \subseteq 1..last_allocated /\ DOMAIN records \subseteq Seqs
    BY DEF MemoryShape, OutboxTypeOK, UplinkTypeOK, IsMap
<1>4. /\ op' \in [step : Steps, record : UplinkRecord \cup {NoRecord}, todo : SUBSET Seqs]
      /\ op'.step \in {"ack_cursor", "ack_delete"} /\ op'.todo = AckTodo(c)
      /\ op'.step = "ack_delete" => AckTodo(c) # {}
    BY <1>1, <1>2, <1>3 DEF Op, Steps
<1>5. UNCHANGED CloudCursor
    BY <1>1 DEF CloudCursor
<1>6. \A s \in AckTodo(c) : s <= CloudCursor
    BY <1>2, <1>3, Numbers
<1>7. cursor.last = last_allocated
    BY <1>1 DEF CursorShape
<1>8. CASE UNCHANGED uplinkVars
    <2>1. OpShape'
        BY <1>2, <1>3, <1>4, <1>5, <1>6, <1>8 DEF OpShape, uplinkVars
    <2> QED
        BY <1>1, <1>4, <1>7, <1>8, <2>1, OpStepSafe DEF OutboxTypeOK
<1>9. CASE ~UNCHANGED uplinkVars
    <2>1. /\ ~StaleAck(c)
          /\ records' = Without(records, AckDeletes(c))
          /\ accepted_loss_sequences' = accepted_loss_sequences \ ((committed_through + 1)..c)
          /\ committed_through' = c /\ missing' = {} /\ more_missing' = FALSE
          /\ UNCHANGED <<last_allocated, envelope_sequences, pending_gaps, accepted_gaps>>
        BY <1>1, <1>9 DEF ObserveAck
    <2>2. c \in Cursors /\ c <= last_allocated
        BY <1>1, <2>1, Numbers DEF AckRefused, Cursors
    <2>3. /\ IsMap(records', Seqs, UplinkRecord)
          /\ DOMAIN records' = DOMAIN records \ AckDeletes(c)
          /\ \A t \in DOMAIN records' : records'[t] = records[t]
        BY <2>1 DEF OutboxTypeOK, UplinkTypeOK, IsMap, Without
    <2>4. UplinkTypeOK'
        BY <2>1, <2>2, <2>3 DEF OutboxTypeOK, UplinkTypeOK
    <2>5. OutboxTypeOK'
        BY <1>1, <1>4, <2>4 DEF OutboxTypeOK
    <2>6. MemoryShape'
        BY <1>1, <2>1, <2>2, <2>3 DEF MemoryShape
    <2>7. RowsUnique' /\ RowsMatchRecords' /\ AcceptedProtected' /\ CloudMatches' /\ NoLoss'
        BY <1>1, <2>3, RowsKept
    <2>8. OpShape'
        BY <1>2, <1>3, <1>4, <1>5, <1>6, <2>1 DEF OpShape
    <2>9. CursorShape'
        BY <1>1, <1>5, <2>1 DEF CursorShape
    <2> QED
        BY <2>5, <2>6, <2>7, <2>8, <2>9
<1> QED
    BY <1>8, <1>9

\* observe_ack, DELETE: the row is the envelope the cloud stored there.
LEMMA AckDeleteSafe == ASSUME SafetyInv, AckDelete PROVE SafetyInv'
<1> USE DEF SafetyInv
<1> DEFINE s == Min(op.todo)
<1>1. /\ up /\ op.step = "ack_delete"
      /\ rows' = Without(rows, {s})
      /\ op' = Op(IF op.todo = {s} THEN "ack_cursor" ELSE "ack_delete", NoRecord, op.todo \ {s})
      /\ UNCHANGED <<uplinkVars, up, warned_at, cursor, gap_rows, cloud_log, historyVars>>
    BY DEF AckDelete, At
<1>2. s \in op.todo
    <2>1. op.todo \subseteq Seqs /\ op.todo # {}
        BY <1>1 DEF OutboxTypeOK, OpShape
    <2>2. IsFiniteSet(Seqs)
        BY FS_Interval, MaxSeqAssumption DEF Seqs
    <2>3. IsFiniteSet(op.todo)
        BY <2>1, <2>2, FS_Subset
    <2>4. op.todo \subseteq Int
        BY <2>1 DEF Seqs
    <2> QED
        BY <2>1, <2>3, <2>4, MinIsLeast
<1> HIDE DEF s
<1>3. s \in 1..last_allocated /\ s \in Seqs /\ s <= CloudCursor
    BY <1>1, <1>2 DEF OpShape, OutboxTypeOK
<1>4. /\ op' \in [step : Steps, record : UplinkRecord \cup {NoRecord}, todo : SUBSET Seqs]
      /\ op'.step \in {"ack_cursor", "ack_delete"} /\ op'.todo = op.todo \ {s}
      /\ op'.step = "ack_delete" => op.todo # {s}
    BY <1>1 DEF Op, Steps, OutboxTypeOK
<1>5. UNCHANGED <<last_allocated, CloudCursor>>
    BY <1>1 DEF uplinkVars, CloudCursor
<1>6. OpShape'
    BY <1>1, <1>2, <1>4, <1>5 DEF OpShape
<1>7. \A t \in {s} \cap DOMAIN rows : rows[t].envelope_id \notin accepted \ CloudStored
    <2>1. s \in DOMAIN cloud_log
        BY <1>3, Numbers DEF CloudCursor, OutboxTypeOK, Seqs
    <2> QED
        BY <1>3, <2>1 DEF CloudMatches, CloudStored
<1> QED
    BY <1>1, <1>3, <1>4, <1>6, <1>7, RowsDeleted

\* observe_ack, cursor; and an operation that returns the error of a statement.
LEMMA AckFinishSafe == ASSUME SafetyInv, AckFinish \/ StoreError PROVE SafetyInv'
<1> USE DEF SafetyInv
<1>1. CASE AckFinish
    <2>1. /\ up /\ op' = Idle
          /\ cursor' = [committed |-> committed_through, last |-> last_allocated]
          /\ UNCHANGED <<uplinkVars, up, warned_at, rows, gap_rows, cloud_log, historyVars>>
        BY <1>1 DEF AckFinish, At, WriteCursor
    <2>2. cursor' \in [committed : Cursors, last : Cursors] /\ cursor'.last = last_allocated
        BY <2>1 DEF OutboxTypeOK, UplinkTypeOK
    <2> QED
        BY <2>1, <2>2, IdleShape, OpStepSafe DEF OutboxTypeOK, historyVars
<1>2. CASE StoreError
    <2>1. /\ up /\ op' = Idle /\ damaged' = TRUE /\ cut_short' = TRUE
          /\ UNCHANGED <<uplinkVars, up, warned_at, rows, cursor, gap_rows, cloud_log, accepted>>
        BY <1>2 DEF StoreError, diskVars
    <2>2. cursor'.last = last_allocated
        BY <2>1 DEF CursorShape
    <2> QED
        BY <2>1, <2>2, IdleShape, OpStepSafe DEF OutboxTypeOK
<1> QED
    BY <1>1, <1>2

\* What a rebuilt journal looks like.
LEMMA RehydrateMemory ==
    ASSUME NEW c \in Cursors, NEW l \in Cursors, NEW m, IsMap(m, Seqs, UplinkRecord),
           Rehydrate(c, l, m)
    PROVE  /\ UplinkTypeOK'
           /\ records' = m /\ last_allocated' = l /\ committed_through' = c
           /\ pending_gaps' = EmptyMap /\ accepted_gaps' = EmptyMap
           /\ DOMAIN m \subseteq 1..l /\ c <= l
<1>1. /\ records' = m /\ last_allocated' = l /\ committed_through' = c
      /\ pending_gaps' = EmptyMap /\ accepted_gaps' = EmptyMap
      /\ missing' = {} /\ more_missing' = FALSE /\ accepted_loss_sequences' = {}
    BY DEF Rehydrate
<1>2. \A S, T : IsMap(EmptyMap, S, T)
    BY EmptyIsMap
<1>3. IsMap(envelope_sequences', EnvelopeIds, Seqs)
    <2> DEFINE Ids == {m[s].envelope_id : s \in DOMAIN m}
    <2>1. envelope_sequences' = [id \in Ids |-> CHOOSE s \in DOMAIN m : m[s].envelope_id = id]
        BY DEF Rehydrate
    <2>2. Ids \subseteq EnvelopeIds
        BY DEF IsMap, UplinkRecord
    <2>3. \A id \in Ids : (CHOOSE s \in DOMAIN m : m[s].envelope_id = id) \in Seqs
        BY DEF IsMap
    <2> QED
        BY <2>1, <2>2, <2>3 DEF IsMap
<1>4. UplinkTypeOK'
    BY <1>1, <1>2, <1>3 DEF UplinkTypeOK
<1>5. DOMAIN m \subseteq 1..l /\ c <= l
    BY MaxSeqAssumption DEF Rehydrate, InvalidRestoredJournal, IsMap, Seqs, Cursors
<1> QED
    BY <1>1, <1>4, <1>5

\* The process ends: memory is gone, the disk is as it was.
LEMMA StopSafe == ASSUME SafetyInv, Stop PROVE SafetyInv'
<1> USE DEF SafetyInv
<1>1. /\ up' = FALSE /\ op' = Idle /\ warned_at' = 0 /\ Rehydrate(0, 0, EmptyMap)
      /\ damaged' \in BOOLEAN /\ cut_short' \in BOOLEAN
      /\ UNCHANGED <<rows, cursor, gap_rows, cloud_log, accepted>>
    BY DEF Stop, diskVars, OutboxTypeOK
<1>2. /\ UplinkTypeOK' /\ records' = EmptyMap /\ last_allocated' = 0 /\ committed_through' = 0
      /\ pending_gaps' = EmptyMap /\ accepted_gaps' = EmptyMap
    <2>1. 0 \in Cursors /\ IsMap(EmptyMap, Seqs, UplinkRecord)
        BY EmptyIsMap, MaxSeqAssumption DEF Cursors
    <2> QED
        BY <1>1, <2>1, RehydrateMemory
<1>3. DOMAIN EmptyMap = {}
    BY EmptyIsMap
<1>4. RowsUnique' /\ RowsMatchRecords' /\ AcceptedProtected' /\ CloudMatches' /\ NoLoss'
      /\ UNCHANGED CloudCursor
    BY <1>1, <1>2, <1>3, RowsKept
<1>5. OutboxTypeOK' /\ OpShape'
    BY <1>1, <1>2, IdleShape DEF OutboxTypeOK
<1>6. MemoryShape'
    BY <1>1, <1>2, <1>3 DEF MemoryShape
<1>7. CursorShape'
    BY <1>1, <1>4 DEF CursorShape
<1> QED
    BY <1>4, <1>5, <1>6, <1>7

\* from_store: the journal in memory is the one on disk.
LEMMA OpenSafe == ASSUME SafetyInv, Open PROVE SafetyInv'
<1> USE DEF SafetyInv
<1>1. /\ ~up /\ up' = TRUE /\ warned_at' = WarnedAtBoot
      /\ Rehydrate(cursor.committed, cursor.last, rows)
      /\ UNCHANGED <<op, rows, cursor, gap_rows, cloud_log, accepted, damaged, cut_short>>
    BY DEF Open, diskVars, historyVars
<1>2. cursor.committed \in Cursors /\ cursor.last \in Cursors /\ IsMap(rows, Seqs, UplinkRecord)
    BY DEF OutboxTypeOK
<1>3. /\ UplinkTypeOK' /\ records' = rows
      /\ last_allocated' = cursor.last /\ committed_through' = cursor.committed
      /\ pending_gaps' = EmptyMap /\ accepted_gaps' = EmptyMap
      /\ cursor.committed <= cursor.last
      /\ DOMAIN rows \subseteq 1..cursor.last
    BY <1>1, <1>2, RehydrateMemory
<1>4. warned_at' \in Nat
    BY <1>1, <1>2, MapFinite DEF WarnedAtBoot
<1>5. op' = Idle /\ OpShape'
    BY <1>1, IdleShape DEF MemoryShape
<1>6. OutboxTypeOK'
    BY <1>1, <1>3, <1>4 DEF OutboxTypeOK
<1>7. MemoryShape'
    BY <1>1, <1>3, EmptyIsMap DEF MemoryShape
<1>8. UNCHANGED <<CloudCursor, CloudStored, RowIds>>
    BY <1>1 DEF CloudCursor, CloudStored, RowIds
<1>9. RowsUnique' /\ RowsMatchRecords' /\ AcceptedProtected' /\ CloudMatches' /\ NoLoss'
    BY <1>1, <1>3, <1>8
       DEF RowsUnique, RowsMatchRecords, AcceptedProtected, CloudMatches, NoLoss
<1>10. CursorShape'
    BY <1>1, <1>3, <1>8 DEF CursorShape
<1> QED
    BY <1>5, <1>6, <1>7, <1>9, <1>10

\* The cloud stores the row of the next sequence it lacks.
LEMMA UploadSafe == ASSUME SafetyInv, Upload PROVE SafetyInv'
<1> USE DEF SafetyInv
<1>1. /\ up /\ op.step = "idle" /\ CloudCursor + 1 \in DOMAIN rows
      /\ cloud_log' = Append(cloud_log, rows[CloudCursor + 1].envelope_id)
      /\ UNCHANGED <<uplinkVars, up, op, warned_at, rows, cursor, gap_rows, accepted, damaged,
                     cut_short>>
    BY DEF Upload, At, diskVars, historyVars
<1>2. /\ cloud_log' \in Seq(EnvelopeIds \cup {OldEnvelope})
      /\ CloudCursor' = CloudCursor + 1
      /\ \A i \in 1..CloudCursor : cloud_log'[i] = cloud_log[i]
      /\ cloud_log'[CloudCursor + 1] = rows[CloudCursor + 1].envelope_id
    <2>1. rows[CloudCursor + 1].envelope_id \in EnvelopeIds
        BY <1>1 DEF OutboxTypeOK, IsMap, UplinkRecord
    <2> QED
        BY <1>1, <2>1 DEF OutboxTypeOK, CloudCursor
<1>3. DOMAIN cloud_log = 1..CloudCursor /\ DOMAIN cloud_log' = 1..(CloudCursor + 1)
    BY <1>2 DEF OutboxTypeOK, CloudCursor
<1>4. CloudStored \subseteq CloudStored'
    BY <1>2, <1>3, Numbers DEF CloudStored
<1>5. UNCHANGED <<last_allocated, committed_through, records, pending_gaps, accepted_gaps,
                  NextSequence, RowIds>>
    BY <1>1 DEF uplinkVars, gapVars, NextSequence, RowIds
<1>6. OutboxTypeOK'
    BY <1>1, <1>2, MemoryKept DEF OutboxTypeOK
<1>7. MemoryShape' /\ RowsUnique' /\ RowsMatchRecords'
    BY <1>1, <1>5 DEF MemoryShape, RowsUnique, RowsMatchRecords
<1>8. AcceptedProtected' /\ NoLoss'
    BY <1>1, <1>4, <1>5 DEF AcceptedProtected, NoLoss
<1>9. OpShape'
    BY <1>1, <1>5 DEF OpShape
<1>10. CursorShape'
    BY <1>1, <1>2, <1>5, Numbers DEF CursorShape
<1>11. CloudMatches'
    <2> SUFFICES ASSUME NEW s \in DOMAIN rows, s <= CloudCursor + 1
                 PROVE  cloud_log'[s] = rows[s].envelope_id
        BY <1>1, <1>2 DEF CloudMatches
    <2>1. s \in Nat /\ s >= 1
        BY DEF OutboxTypeOK, IsMap, Seqs
    <2>2. s = CloudCursor + 1 \/ s \in 1..CloudCursor
        BY <2>1, Numbers
    <2> QED
        BY <1>2, <2>1, <2>2, Numbers DEF CloudMatches
<1> QED
    BY <1>6, <1>7, <1>8, <1>9, <1>10, <1>11

\* The renumbered rows are the rows, each once, above n in the same order.
LEMMA RenumberedRows ==
    ASSUME OutboxTypeOK, NEW n \in Nat, n + Cardinality(DOMAIN rows) <= MaxSeq
    PROVE  LET N == Renumbered(n)
           IN  /\ DOMAIN N = (n + 1)..(n + Cardinality(DOMAIN rows))
               /\ IsMap(N, Seqs, UplinkRecord)
               /\ \A s \in DOMAIN N : \E t \in DOMAIN rows :
                     n + RankIn(DOMAIN rows, t) = s /\ N[s] = rows[t]
               /\ \A t \in DOMAIN rows : \E s \in DOMAIN N : N[s] = rows[t]
<1> DEFINE D == DOMAIN rows
           k == Cardinality(D)
           N == Renumbered(n)
           Old(s) == CHOOSE t \in D : n + RankIn(D, t) = s
<1>1. D \subseteq Seqs /\ IsFiniteSet(D) /\ k \in Nat /\ D \subseteq Int
    <2>1. IsMap(rows, Seqs, UplinkRecord)
        BY DEF OutboxTypeOK
    <2>2. D \subseteq Seqs /\ Seqs \subseteq Int
        BY <2>1 DEF IsMap, Seqs
    <2> QED
        BY <2>1, <2>2, MapFinite
<1>2. /\ \A t \in D : RankIn(D, t) \in 1..k
      /\ \A t, u \in D : RankIn(D, t) = RankIn(D, u) => t = u
      /\ \A j \in 1..k : \E t \in D : RankIn(D, t) = j
    BY <1>1, RankBijection
<1>3. N = [s \in (n + 1)..(n + k) |-> rows[Old(s)]]
    BY DEF Renumbered
<1>4. ASSUME NEW s \in (n + 1)..(n + k)
      PROVE  Old(s) \in D /\ n + RankIn(D, Old(s)) = s
    <2>1. s - n \in 1..k
        BY <1>1
    <2>2. PICK t \in D : RankIn(D, t) = s - n
        BY <1>2, <2>1
    <2>3. n + RankIn(D, t) = s
        BY <2>1, <2>2
    <2> QED
        BY <2>3
<1>5. ASSUME NEW t \in D
      PROVE  \E s \in (n + 1)..(n + k) : Old(s) = t
    <2>1. RankIn(D, t) \in 1..k
        BY <1>2
    <2>2. n + RankIn(D, t) \in (n + 1)..(n + k)
        BY <1>1, <2>1
    <2>3. PICK s \in (n + 1)..(n + k) : s = n + RankIn(D, t)
        BY <2>2
    <2>4. Old(s) \in D /\ n + RankIn(D, Old(s)) = s
        BY <1>4
    <2>5. RankIn(D, Old(s)) \in 1..k
        BY <1>2, <2>4
    <2>6. RankIn(D, Old(s)) = RankIn(D, t)
        BY <2>1, <2>3, <2>4, <2>5
    <2>7. Old(s) = t
        BY <1>2, <2>4, <2>6
    <2> QED
        BY <2>7
<1> HIDE DEF Old, N
<1>6. DOMAIN N = (n + 1)..(n + k) /\ \A s \in DOMAIN N : N[s] = rows[Old(s)]
    BY <1>3
<1>7. IsMap(N, Seqs, UplinkRecord)
    <2>1. DOMAIN N \subseteq Seqs
        BY <1>1, <1>6, Numbers DEF Seqs
    <2>2. \A s \in DOMAIN N : N[s] \in UplinkRecord
        BY <1>4, <1>6 DEF OutboxTypeOK, IsMap
    <2>3. N \in [DOMAIN N -> UplinkRecord]
        BY <1>3, <1>6, <2>2
    <2> QED
        BY <2>1, <2>3 DEF IsMap
<1>8. \A s \in DOMAIN N : \E t \in D : n + RankIn(D, t) = s /\ N[s] = rows[t]
    BY <1>4, <1>6
<1>9. \A t \in D : \E s \in DOMAIN N : N[s] = rows[t]
    BY <1>5, <1>6
<1> QED
    BY <1>6, <1>7, <1>8, <1>9 DEF N

\* uplink-rescue: every row keeps its envelope and lies above the cloud's cursor.
LEMMA RescueSafe == ASSUME SafetyInv, Rescue(CloudCursor) PROVE SafetyInv'
<1> USE DEF SafetyInv
<1> DEFINE n == CloudCursor
           k == Cardinality(DOMAIN rows)
<1>1. /\ ~up /\ n + k <= MaxSeq
      /\ rows' = Renumbered(n)
      /\ cursor' = [committed |-> n, last |-> n + k]
      /\ gap_rows' = {} /\ damaged' = FALSE
      /\ UNCHANGED <<uplinkVars, up, op, warned_at, cloud_log, accepted, cut_short>>
    BY DEF Rescue, RescueTarget
<1>2. n \in Nat /\ k \in Nat /\ MaxSeq \in Nat
    BY Numbers, MapFinite DEF OutboxTypeOK
<1>3. /\ DOMAIN rows' = (n + 1)..(n + k)
      /\ IsMap(rows', Seqs, UplinkRecord)
      /\ \A s \in DOMAIN rows' : \E t \in DOMAIN rows :
            n + RankIn(DOMAIN rows, t) = s /\ rows'[s] = rows[t]
      /\ \A t \in DOMAIN rows : \E s \in DOMAIN rows' : rows'[s] = rows[t]
    BY <1>1, <1>2, RenumberedRows
<1> HIDE DEF n, k
<1>4. UNCHANGED <<last_allocated, committed_through, records, pending_gaps, accepted_gaps,
                  CloudCursor, CloudStored>>
    BY <1>1 DEF uplinkVars, gapVars, CloudCursor, CloudStored
<1>5. RowIds' = RowIds
    BY <1>3 DEF RowIds
<1>6. OutboxTypeOK'
    <2>1. cursor' \in [committed : Cursors, last : Cursors]
        BY <1>1, <1>2 DEF Cursors
    <2> QED
        BY <1>1, <1>3, <2>1, MemoryKept DEF OutboxTypeOK
<1>7. MemoryShape'
    BY <1>1, <1>4 DEF MemoryShape
<1>8. RowsUnique'
    <2> SUFFICES ASSUME NEW s \in DOMAIN rows', NEW t \in DOMAIN rows',
                        rows'[s].envelope_id = rows'[t].envelope_id
                 PROVE  s = t
        BY DEF RowsUnique
    <2>1. PICK a \in DOMAIN rows : n + RankIn(DOMAIN rows, a) = s /\ rows'[s] = rows[a]
        BY <1>3
    <2>2. PICK b \in DOMAIN rows : n + RankIn(DOMAIN rows, b) = t /\ rows'[t] = rows[b]
        BY <1>3
    <2>3. a = b
        BY <2>1, <2>2 DEF RowsUnique
    <2> QED
        BY <2>1, <2>2, <2>3
<1>9. RowsMatchRecords'
    BY <1>1, <1>4, EmptyIsMap DEF MemoryShape, RowsMatchRecords
<1>10. AcceptedProtected'
    <2> SUFFICES ASSUME NEW s \in DOMAIN rows', rows'[s].envelope_id \in accepted \ CloudStored
                 PROVE  rows'[s].retention = "Protected"
        BY <1>1, <1>4 DEF AcceptedProtected
    <2>1. PICK a \in DOMAIN rows : rows'[s] = rows[a]
        BY <1>3
    <2> QED
        BY <2>1 DEF AcceptedProtected
<1>11. OpShape'
    BY <1>1, IdleShape DEF MemoryShape
<1>12. CursorShape'
    BY <1>1, <1>2, <1>3, <1>4 DEF CursorShape, n
<1>13. CloudMatches'
    BY <1>2, <1>3, <1>4 DEF CloudMatches, n
<1>14. NoLoss'
    BY <1>1, <1>4, <1>5 DEF NoLoss
<1> QED
    BY <1>6, <1>7, <1>8, <1>9, <1>10, <1>11, <1>12, <1>13, <1>14

\* Nothing changes.
LEMMA StutterSafe == ASSUME SafetyInv, UNCHANGED outboxVars PROVE SafetyInv'
<1>1. UNCHANGED <<uplinkVars, up, op, warned_at, rows, cursor, gap_rows, cloud_log, accepted,
                  damaged, cut_short, last_allocated, committed_through, records, pending_gaps,
                  accepted_gaps>>
    BY DEF outboxVars, diskVars, historyVars, uplinkVars, gapVars
<1>2. RowsUnique' /\ RowsMatchRecords' /\ AcceptedProtected' /\ CloudMatches' /\ NoLoss'
      /\ UNCHANGED CloudCursor
    BY <1>1, RowsKept
<1>3. OutboxTypeOK'
    BY <1>1, MemoryKept DEF SafetyInv, OutboxTypeOK
<1>4. MemoryShape' /\ OpShape' /\ CursorShape'
    BY <1>1, <1>2 DEF SafetyInv, MemoryShape, OpShape, CursorShape, NextSequence
<1> QED
    BY <1>2, <1>3, <1>4 DEF SafetyInv

\* SafetyInv is inductive.
LEMMA SafetyStep == SafetyInv /\ [OutboxNext]_outboxVars => SafetyInv'
<1> SUFFICES ASSUME SafetyInv, [OutboxNext]_outboxVars PROVE SafetyInv'
    OBVIOUS
<1>1. ASSUME NEW id \in EnvelopeIds, NEW r \in Retentions, AppendEnqueue(id, r)
      PROVE  SafetyInv'
    BY <1>1, AppendEnqueueSafe
<1>2. ASSUME NEW c \in 0..CloudCursor, AckMemory(c) PROVE SafetyInv'
    BY <1>2, AckMemorySafe
<1>3. CASE AppendPublish
    BY <1>3, AppendPublishSafe
<1>4. CASE EvictIfNeeded
    BY <1>4, EvictIfNeededSafe
<1>5. CASE EvictDelete
    BY <1>5, EvictDeleteSafe
<1>6. CASE EvictInsertGap \/ EvictFinish
    BY <1>6, EvictRestSafe
<1>7. CASE AckDelete
    BY <1>7, AckDeleteSafe
<1>8. CASE AckFinish \/ StoreError
    BY <1>8, AckFinishSafe
<1>9. CASE Stop
    BY <1>9, StopSafe
<1>10. CASE Open
    BY <1>10, OpenSafe
<1>11. CASE Rescue(CloudCursor)
    BY <1>11, RescueSafe
<1>12. CASE Upload
    BY <1>12, UploadSafe
<1>13. CASE UNCHANGED outboxVars
    BY <1>13, StutterSafe
<1> QED
    BY <1>1, <1>2, <1>3, <1>4, <1>5, <1>6, <1>7, <1>8, <1>9, <1>10, <1>11, <1>12, <1>13
       DEF OutboxNext

\* append, observe_ack, evict_if_needed, from_store and uplink-rescue, with stops
\* and failed statements between any two of their statements, lose nothing: a
\* Protected envelope whose append took effect is on disk or with the cloud.
THEOREM NothingIsLost == CloudStart = 0 /\ OutboxSpec => []NoLoss
<1>1. CloudStart = 0 /\ OutboxInit => SafetyInv
    BY OutboxInitSafe
<1>2. SafetyInv => NoLoss
    BY DEF SafetyInv
<1> QED
    BY <1>1, <1>2, SafetyStep, PTL DEF OutboxSpec

\* What observe_ack deletes is what was delivered: a row at a sequence the cloud
\* has stored is the envelope the cloud stored there.
THEOREM CloudAlwaysMatches == CloudStart = 0 /\ OutboxSpec => []CloudMatches
<1>1. CloudStart = 0 /\ OutboxInit => SafetyInv
    BY OutboxInitSafe
<1>2. SafetyInv => CloudMatches
    BY DEF SafetyInv
<1> QED
    BY <1>1, <1>2, SafetyStep, PTL DEF OutboxSpec

-----------------------------------------------------------------------------
(* Agreement, NoHoles and Capacity, action by action *)

\* A smaller queue with nothing new in it is still small enough.
LEMMA SmallerQueue ==
    ASSUME NEW m, NEW q, IsMap(m, Seqs, UplinkRecord), DOMAIN q \subseteq DOMAIN m,
           \A s \in DOMAIN q : q[s] = m[s]
    PROVE  /\ Cardinality(DOMAIN q) \in Nat /\ Cardinality(DOMAIN m) \in Nat
           /\ Cardinality(DOMAIN q) <= Cardinality(DOMAIN m)
           /\ EvictableIn(q) \subseteq EvictableIn(m)
           /\ EvictedEnough(m) => EvictedEnough(q)
<1>1. /\ IsFiniteSet(DOMAIN m) /\ Cardinality(DOMAIN m) \in Nat
    BY MapFinite
<1>2. /\ Cardinality(DOMAIN q) <= Cardinality(DOMAIN m) /\ IsFiniteSet(DOMAIN q)
    BY <1>1, FS_Subset
<1>3. Cardinality(DOMAIN q) \in Nat
    BY <1>2, FS_CardinalityType
<1>4. EvictableIn(q) \subseteq EvictableIn(m)
    BY DEF EvictableIn
<1> QED
    BY <1>1, <1>2, <1>3, <1>4, OutboxAssumption DEF EvictedEnough

\* A map with nothing taken away is itself, and keys can be taken away in turn.
LEMMA WithoutFacts ==
    ASSUME NEW S, NEW T, NEW m, IsMap(m, S, T)
    PROVE  /\ Without(m, {}) = m
           /\ \A X, s : s \in X => Without(Without(m, {s}), X \ {s}) = Without(m, X)
<1>1. Without(m, {}) = m
    BY DEF Without, IsMap
<1>2. ASSUME NEW X, NEW s \in X
      PROVE  Without(Without(m, {s}), X \ {s}) = Without(m, X)
    <2>1. DOMAIN Without(m, {s}) = DOMAIN m \ {s}
        BY DEF Without
    <2>2. (DOMAIN m \ {s}) \ (X \ {s}) = DOMAIN m \ X
        OBVIOUS
    <2> QED
        BY <2>1, <2>2 DEF Without
<1> QED
    BY <1>1, <1>2

\* An empty outbox.
LEMMA OutboxInitAgrees == ASSUME OutboxInit PROVE AgreementInv
<1> USE DEF OutboxInit, UplinkInit
<1>1. op.step = "idle" /\ DOMAIN EmptyMap = {}
    BY IdleShape, EmptyIsMap
<1>2. Agreement /\ NoHoles
    BY <1>1 DEF Agreement, NoHoles
<1>3. Retained = 0 /\ EvictableIn(records) = {}
    BY <1>1, FS_EmptySet DEF Retained, EvictableIn
<1>4. Capacity
    BY <1>1, <1>3, OutboxAssumption DEF Capacity, EvictedEnough, Retained
<1> QED
    BY <1>2, <1>4 DEF AgreementInv

\* append, INSERT: the row is the one difference.
LEMMA AppendEnqueueAgrees ==
    ASSUME SafetyInv, AgreementInv, NEW id \in EnvelopeIds, NEW r \in Retentions,
           AppendEnqueue(id, r)
    PROVE  AgreementInv'
<1> DEFINE record == [envelope_id |-> id, retention |-> r]
<1>1. /\ up /\ op.step = "idle"
      /\ rows' = Put(rows, NextSequence, record)
      /\ op' = Op("append_cursor", record, {})
      /\ UNCHANGED <<uplinkVars, up, warned_at, cursor, gap_rows, cloud_log, historyVars>>
    BY DEF AppendEnqueue, At
<1>2. UNCHANGED <<last_allocated, records, committed_through, pending_gaps, damaged, cut_short,
                  NextSequence, Retained>>
    BY <1>1 DEF uplinkVars, gapVars, historyVars, NextSequence, Retained
<1>3. op'.step = "append_cursor" /\ op'.record = record
    BY <1>1 DEF Op
<1>4. Agreement'
    BY <1>1, <1>2, <1>3 DEF AgreementInv, Agreement
<1>5. NoHoles'
    BY <1>1, <1>2, <1>3 DEF AgreementInv, NoHoles
<1>6. Capacity'
    BY <1>1, <1>2, <1>3 DEF AgreementInv, Capacity, EvictedEnough, EvictableIn
<1> QED
    BY <1>4, <1>5, <1>6 DEF AgreementInv

\* append, cursor and memory: they agree again, and there is one record more.
LEMMA AppendPublishAgrees ==
    ASSUME SafetyInv, AgreementInv, AppendPublish
    PROVE  AgreementInv'
<1> USE DEF SafetyInv, AgreementInv
<1>1. /\ up /\ op.step = "append_cursor"
      /\ cursor' = [committed |-> committed_through, last |-> NextSequence]
      /\ last_allocated' = NextSequence
      /\ records' = Put(records, NextSequence, op.record)
      /\ op' = Op("evict", NoRecord, {})
      /\ UNCHANGED <<committed_through, hintVars, gapVars, up, warned_at, rows, gap_rows,
                     cloud_log, damaged, cut_short>>
    <2>1. op.record \in UplinkRecord
        BY DEF AppendPublish, At, OpShape, OutboxTypeOK, IsMap
    <2>2. op.record = [envelope_id |-> op.record.envelope_id, retention |-> op.record.retention]
        BY <2>1 DEF UplinkRecord
    <2> QED
        BY <2>2 DEF AppendPublish, At, CursorAfterAppend, AppendRecord
<1>2. /\ DOMAIN records' = DOMAIN records \cup {NextSequence}
      /\ \A s \in DOMAIN records : s # NextSequence => records'[s] = records[s]
    BY <1>1 DEF Put
<1>3. op'.step = "evict"
    BY <1>1 DEF Op
<1>4. Agreement'
    BY <1>1, <1>3 DEF Agreement
<1>5. NoHoles'
    <2>1. ((committed_through + 1)..last_allocated) \cup {NextSequence}
              = (committed_through + 1)..NextSequence
        BY Numbers DEF NextSequence, MemoryShape
    <2> QED
        BY <1>1, <1>2, <1>3, <2>1 DEF NoHoles
<1>6. Capacity'
    <2>1. IsFiniteSet(DOMAIN records) /\ Retained \in Nat
        BY MapFinite DEF OutboxTypeOK, UplinkTypeOK, Retained
    <2>2. Retained' <= Retained + 1
        BY <1>2, <2>1, FS_AddElement DEF Retained
    <2>3. EvictableIn(records) = {} => EvictableIn(records') \subseteq {last_allocated'}
        BY <1>1, <1>2 DEF EvictableIn
    <2>4. Retained' \in Nat
        BY <1>2, <2>1, FS_AddElement, FS_CardinalityType DEF Retained
    <2> QED
        BY <1>1, <1>3, <2>1, <2>2, <2>3, <2>4, OutboxAssumption
           DEF Capacity, EvictedEnough, Retained
<1> QED
    BY <1>4, <1>5, <1>6

\* evict_if_needed: afterwards the queue is within its capacity, or has nothing
\* to evict and the alarm is raised.
LEMMA EvictIfNeededAgrees ==
    ASSUME SafetyInv, AgreementInv, EvictIfNeeded
    PROVE  AgreementInv'
<1> USE DEF SafetyInv, AgreementInv
<1>1. /\ up /\ op.step = "evict"
      /\ UNCHANGED <<up, rows, cursor, gap_rows, cloud_log, accepted, damaged, cut_short>>
    BY DEF EvictIfNeeded, At, diskVars, historyVars
<1>2. IsMap(records, Seqs, UplinkRecord) /\ IsFiniteSet(DOMAIN records) /\ Retained \in Nat
    BY MapFinite DEF OutboxTypeOK, UplinkTypeOK, Retained
<1>3. MaxRecords \in Nat \ {0} /\ WarnStride \in Nat
    BY OutboxAssumption
<1>4. ASSUME op' = Idle, UNCHANGED uplinkVars,
             Retained <= MaxRecords \/ (EvictableIn(records) = {} /\ warned_at' # 0)
      PROVE  AgreementInv'
    <2>1. op'.step = "idle"
        BY <1>4, IdleShape
    <2>2. UNCHANGED <<records, last_allocated, committed_through, pending_gaps, Retained,
                      EvictableIn(records)>>
        BY <1>4 DEF uplinkVars, gapVars, Retained, EvictableIn
    <2>3. Agreement' /\ NoHoles'
        BY <1>1, <2>1, <2>2 DEF Agreement, NoHoles
    <2>4. Capacity'
        BY <1>1, <1>2, <1>3, <1>4, <2>1, <2>2 DEF Capacity, EvictedEnough, Retained
    <2> QED
        BY <2>3, <2>4
<1>5. CASE WithinCapacity
    <2>1. op' = Idle /\ UNCHANGED uplinkVars /\ Retained <= MaxRecords
        BY <1>5 DEF WithinCapacity
    <2> QED
        BY <1>4, <2>1
<1>6. CASE Overflowing
    <2>1. warned_at' # 0
        BY <1>2, <1>3, <1>6 DEF Overflowing, WarnedAfter, WarningDue, OutboxTypeOK
    <2> QED
        BY <1>4, <1>6, <2>1 DEF Overflowing
<1>7. CASE EvictOldest
    <2> DEFINE s == Min(EvictableIn(records))
    <2>1. /\ s \in EvictableIn(records) /\ s \in DOMAIN records
          /\ records[s].retention = "Evictable"
        <3>1. EvictableIn(records) \subseteq DOMAIN records /\ DOMAIN records \subseteq Seqs
            BY <1>2 DEF EvictableIn, IsMap
        <3>2. IsFiniteSet(EvictableIn(records)) /\ EvictableIn(records) \subseteq Int
            BY <1>2, <3>1, FS_Subset, Numbers
        <3>3. s \in EvictableIn(records)
            BY <1>7, <3>2, MinIsLeast DEF EvictOldest
        <3> QED
            BY <3>1, <3>3 DEF EvictableIn
    <2> HIDE DEF s
    <2>2. /\ DeclareLoss(s, {s}) /\ Retained > MaxRecords
          /\ op' = Op("evict_delete", NoRecord, {s})
        BY <1>7 DEF EvictOldest, s
    <2>3. ~LossRefused(s, {s})
        BY <2>1, EmptyIsMap DEF LossRefused, Evictable, MemoryShape
    <2>4. /\ records' = Without(records, {s})
          /\ pending_gaps' = Put(pending_gaps, s, {s})
          /\ UNCHANGED <<last_allocated, committed_through>>
        BY <2>2, <2>3 DEF DeclareLoss
    <2>5. op'.step = "evict_delete" /\ op'.todo = {s}
        BY <2>2 DEF Op
    <2>6. Agreement' /\ NoHoles'
        BY <1>1, <2>4, <2>5 DEF Agreement, NoHoles
    <2>7. pending_gaps' # EmptyMap
        BY <2>4, EmptyIsMap DEF Put
    <2>8. DOMAIN records' = DOMAIN records \ {s}
        BY <2>4 DEF Without
    <2>9. Retained' = Retained - 1
        BY <1>2, <2>1, <2>8, FS_RemoveElement DEF Retained
    <2>10. EvictableIn(records) \subseteq {last_allocated} => EvictableIn(records') = {}
        BY <2>1, <2>4, <2>8 DEF EvictableIn, Without
    <2>11. ~cut_short => EvictedEnough(records')
        <3>1. CASE Retained <= MaxRecords + 1
            BY <1>2, <1>3, <2>9, <3>1 DEF EvictedEnough, Retained
        <3>2. CASE EvictableIn(records) \subseteq {last_allocated}
            BY <2>10, <3>2 DEF EvictedEnough
        <3> QED
            BY <1>1, <3>1, <3>2 DEF Capacity
    <2>12. Capacity'
        BY <1>1, <2>5, <2>7, <2>11 DEF Capacity
    <2> QED
        BY <2>6, <2>12
<1> QED
    BY <1>5, <1>6, <1>7 DEF EvictIfNeeded

\* evict_if_needed, the three statements: the row goes, the gap is noted, and
\* the alarm may be forgotten because a loss is pending.
LEMMA EvictRestAgrees ==
    ASSUME SafetyInv, AgreementInv, EvictDelete \/ EvictInsertGap \/ EvictFinish
    PROVE  AgreementInv'
<1> USE DEF SafetyInv, AgreementInv
<1>1. /\ up /\ UNCHANGED <<uplinkVars, up, historyVars>>
    BY DEF EvictDelete, EvictInsertGap, EvictFinish, At
<1>2. UNCHANGED <<records, last_allocated, committed_through, pending_gaps, damaged, cut_short,
                  Retained, EvictableIn(records)>>
    BY <1>1 DEF uplinkVars, gapVars, historyVars, Retained, EvictableIn
<1>3. CASE EvictDelete
    <2>1. /\ op.step = "evict_delete" /\ rows' = Without(rows, op.todo)
          /\ op' = [op EXCEPT !.step = "evict_gap"]
          /\ UNCHANGED <<warned_at, cursor, gap_rows>>
        BY <1>3 DEF EvictDelete, At
    <2>2. op'.step = "evict_gap"
        BY <2>1 DEF OutboxTypeOK
    <2>3. Agreement' /\ NoHoles'
        BY <1>1, <1>2, <2>1, <2>2 DEF Agreement, NoHoles
    <2>4. Capacity'
        BY <1>1, <1>2, <2>1, <2>2 DEF Capacity, EvictedEnough, Retained
    <2> QED
        BY <2>3, <2>4
<1>4. CASE EvictInsertGap
    <2>1. /\ op.step = "evict_gap" /\ gap_rows' = gap_rows \cup op.todo
          /\ op' = [op EXCEPT !.step = "evict_cursor"]
          /\ UNCHANGED <<warned_at, rows, cursor>>
        BY <1>4 DEF EvictInsertGap, At
    <2>2. op'.step = "evict_cursor" /\ gap_rows' # {}
        BY <2>1 DEF OutboxTypeOK, OpShape
    <2>3. Agreement' /\ NoHoles'
        BY <1>1, <1>2, <2>1, <2>2 DEF Agreement, NoHoles
    <2>4. Capacity'
        BY <1>1, <1>2, <2>1, <2>2 DEF Capacity, EvictedEnough, Retained
    <2> QED
        BY <2>3, <2>4
<1>5. CASE EvictFinish
    <2>1. /\ op.step = "evict_cursor" /\ op' = Idle
          /\ cursor' = [committed |-> committed_through, last |-> last_allocated]
          /\ UNCHANGED <<rows, gap_rows>>
        BY <1>5 DEF EvictFinish, At, WriteCursor
    <2>2. op'.step = "idle"
        BY <2>1, IdleShape
    <2>3. Agreement' /\ NoHoles'
        BY <1>1, <1>2, <2>1, <2>2 DEF Agreement, NoHoles
    <2>4. Capacity'
        BY <1>1, <1>2, <2>1, <2>2 DEF Capacity, EvictedEnough, Retained
    <2> QED
        BY <2>3, <2>4
<1> QED
    BY <1>3, <1>4, <1>5

\* observe_ack, in memory: what is left to delete is the difference.
LEMMA AckMemoryAgrees ==
    ASSUME SafetyInv, AgreementInv, NEW c \in 0..CloudCursor, AckMemory(c)
    PROVE  AgreementInv'
<1> USE DEF SafetyInv, AgreementInv
<1>1. /\ up /\ op.step = "idle"
      /\ ~AckRefused(c, {}) /\ ObserveAck(c, {}, FALSE)
      /\ op' = Op(IF AckTodo(c) = {} THEN "ack_cursor" ELSE "ack_delete", NoRecord, AckTodo(c))
      /\ UNCHANGED <<up, warned_at, rows, cursor, gap_rows, damaged, cut_short>>
    BY DEF AckMemory, At, diskVars, historyVars
<1>2. /\ op'.step = IF AckTodo(c) = {} THEN "ack_cursor" ELSE "ack_delete"
      /\ op'.todo = AckTodo(c)
    BY <1>1 DEF Op
<1>3. IsMap(records, Seqs, UplinkRecord)
    BY DEF OutboxTypeOK, UplinkTypeOK
<1>4. /\ records' = Without(records, AckTodo(c))
      /\ UNCHANGED <<last_allocated, pending_gaps>>
    <2>1. CASE StaleAck(c)
        BY <1>1, <1>3, <2>1, WithoutFacts DEF ObserveAck, AckTodo, uplinkVars, gapVars
    <2>2. CASE ~StaleAck(c)
        BY <1>1, <2>2 DEF ObserveAck, AckTodo
    <2> QED
        BY <2>1, <2>2
<1>5. DOMAIN records' \subseteq DOMAIN records /\ \A s \in DOMAIN records' : records'[s] = records[s]
    BY <1>4 DEF Without
<1>6. Agreement'
    <2>1. rows' = rows /\ (up /\ ~damaged => rows = records) /\ UNCHANGED <<up, damaged>>
        BY <1>1 DEF Agreement
    <2>2. Without(records, {}) = records
        BY <1>3, WithoutFacts
    <2>3. CASE AckTodo(c) = {}
        BY <1>2, <1>4, <2>1, <2>2, <2>3 DEF Agreement
    <2>4. CASE AckTodo(c) # {}
        BY <1>2, <1>4, <2>1, <2>4 DEF Agreement
    <2> QED
        BY <2>3, <2>4
<1>7. NoHoles'
    <2>1. CASE StaleAck(c)
        BY <1>1, <1>2, <2>1 DEF ObserveAck, uplinkVars, NoHoles
    <2>2. CASE ~StaleAck(c)
        <3>1. /\ DOMAIN records' = DOMAIN records \ ((committed_through + 1)..c)
              /\ committed_through' = c
            BY <1>1, <2>2 DEF ObserveAck, AckDeletes, Without
        <3>2. ((committed_through + 1)..last_allocated) \ ((committed_through + 1)..c)
                  = (c + 1)..last_allocated
            BY <2>2, Numbers DEF StaleAck
        <3> QED
            BY <1>1, <1>2, <1>4, <3>1, <3>2 DEF NoHoles
    <2> QED
        BY <2>1, <2>2
<1>8. Capacity'
    <2>1. /\ Retained' \in Nat /\ Retained \in Nat /\ Retained' <= Retained
          /\ EvictedEnough(records) => EvictedEnough(records')
        BY <1>3, <1>5, SmallerQueue DEF Retained
    <2> QED
        BY <1>1, <1>2, <1>4, <2>1, OutboxAssumption DEF Capacity
<1> QED
    BY <1>6, <1>7, <1>8

\* observe_ack, DELETE: one row less to delete.
LEMMA AckDeleteAgrees ==
    ASSUME SafetyInv, AgreementInv, AckDelete
    PROVE  AgreementInv'
<1> USE DEF SafetyInv, AgreementInv
<1> DEFINE s == Min(op.todo)
<1>1. /\ up /\ op.step = "ack_delete"
      /\ rows' = Without(rows, {s})
      /\ op' = Op(IF op.todo = {s} THEN "ack_cursor" ELSE "ack_delete", NoRecord, op.todo \ {s})
      /\ UNCHANGED <<uplinkVars, up, warned_at, cursor, gap_rows, historyVars>>
    BY DEF AckDelete, At
<1>2. s \in op.todo
    <2>1. op.todo \subseteq Seqs /\ op.todo # {}
        BY <1>1 DEF OutboxTypeOK, OpShape
    <2>2. IsFiniteSet(Seqs)
        BY FS_Interval, MaxSeqAssumption DEF Seqs
    <2>3. IsFiniteSet(op.todo)
        BY <2>1, <2>2, FS_Subset
    <2>4. op.todo \subseteq Int
        BY <2>1 DEF Seqs
    <2> QED
        BY <2>1, <2>3, <2>4, MinIsLeast
<1> HIDE DEF s
<1>3. /\ op'.step = IF op.todo = {s} THEN "ack_cursor" ELSE "ack_delete"
      /\ op'.todo = op.todo \ {s}
    BY <1>1 DEF Op
<1>4. UNCHANGED <<records, last_allocated, committed_through, pending_gaps, damaged, cut_short,
                  Retained, EvictableIn(records)>>
    BY <1>1 DEF uplinkVars, gapVars, historyVars, Retained, EvictableIn
<1>5. Agreement'
    <2>1. IsMap(rows, Seqs, UplinkRecord)
        BY DEF OutboxTypeOK
    <2>2. Without(rows', op'.todo) = Without(rows, op.todo)
        <3>1. Without(Without(rows, {s}), op.todo \ {s}) = Without(rows, op.todo)
            BY <1>2, <2>1, WithoutFacts
        <3> QED
            BY <1>1, <1>3, <3>1
    <2>3. op.todo = {s} => rows' = Without(rows, op.todo)
        BY <1>1
    <2> QED
        BY <1>1, <1>3, <1>4, <2>2, <2>3 DEF Agreement
<1>6. NoHoles'
    BY <1>1, <1>3, <1>4 DEF NoHoles
<1>7. Capacity'
    BY <1>1, <1>3, <1>4 DEF Capacity, EvictedEnough, Retained
<1> QED
    BY <1>5, <1>6, <1>7

\* observe_ack, cursor; and an operation that is cut short, of which nothing is
\* claimed.
LEMMA AckFinishAgrees ==
    ASSUME SafetyInv, AgreementInv, AckFinish \/ StoreError
    PROVE  AgreementInv'
<1> USE DEF SafetyInv, AgreementInv
<1>1. CASE AckFinish
    <2>1. /\ up /\ op.step = "ack_cursor" /\ op' = Idle
          /\ cursor' = [committed |-> committed_through, last |-> last_allocated]
          /\ UNCHANGED <<uplinkVars, up, warned_at, rows, gap_rows, historyVars>>
        BY <1>1 DEF AckFinish, At, WriteCursor
    <2>2. UNCHANGED <<records, last_allocated, committed_through, pending_gaps, damaged,
                      cut_short, Retained, EvictableIn(records)>>
        BY <2>1 DEF uplinkVars, gapVars, historyVars, Retained, EvictableIn
    <2>3. op'.step = "idle"
        BY <2>1, IdleShape
    <2>4. Agreement' /\ NoHoles'
        BY <2>1, <2>2, <2>3 DEF Agreement, NoHoles
    <2>5. Capacity'
        BY <2>1, <2>2, <2>3 DEF Capacity, EvictedEnough, Retained
    <2> QED
        BY <2>4, <2>5
<1>2. CASE StoreError
    BY <1>2 DEF StoreError, Agreement, NoHoles, Capacity
<1> QED
    BY <1>1, <1>2

\* The process ends: between operations the disk is what memory was.
LEMMA StopAgrees == ASSUME SafetyInv, AgreementInv, Stop PROVE AgreementInv'
<1> USE DEF SafetyInv, AgreementInv
<1>1. /\ up /\ up' = FALSE /\ op' = Idle
      /\ damaged' = (damaged \/ op # Idle) /\ cut_short' = (cut_short \/ op # Idle)
      /\ UNCHANGED <<rows, cursor, gap_rows>>
    BY DEF Stop, diskVars
<1>2. op'.step = "idle"
    BY <1>1, IdleShape
<1>3. Agreement'
    BY <1>1 DEF Agreement
<1>4. NoHoles'
    <2>1. ASSUME op = Idle, ~damaged, gap_rows = {}
          PROVE  DOMAIN rows = (cursor.committed + 1)..cursor.last
        BY <1>1, <2>1, IdleShape DEF NoHoles, Agreement, CursorShape
    <2> QED
        BY <1>1, <1>2, <2>1 DEF NoHoles
<1>5. Capacity'
    <2>1. ASSUME op = Idle, ~cut_short PROVE EvictedEnough(rows)
        BY <1>1, <2>1, IdleShape DEF Capacity, Agreement
    <2>2. ~cut_short' => EvictedEnough(rows')
        BY <1>1, <2>1 DEF EvictedEnough, EvictableIn
    <2> QED
        BY <1>1, <1>2, <2>2 DEF Capacity, OutboxTypeOK
<1> QED
    BY <1>3, <1>4, <1>5

\* from_store: memory is the disk, and the alarm is raised at once.
LEMMA OpenAgrees == ASSUME SafetyInv, AgreementInv, Open PROVE AgreementInv'
<1> USE DEF SafetyInv, AgreementInv
<1>1. /\ ~up /\ up' = TRUE /\ warned_at' = WarnedAtBoot
      /\ Rehydrate(cursor.committed, cursor.last, rows)
      /\ UNCHANGED <<op, rows, cursor, gap_rows, damaged, cut_short>>
    BY DEF Open, diskVars, historyVars
<1>2. /\ records' = rows /\ last_allocated' = cursor.last
      /\ committed_through' = cursor.committed
    BY <1>1 DEF Rehydrate
<1>3. op'.step = "idle"
    BY <1>1, IdleShape DEF MemoryShape
<1>4. Agreement' /\ NoHoles'
    BY <1>1, <1>2, <1>3 DEF Agreement, NoHoles
<1>5. Capacity'
    <2>1. Cardinality(DOMAIN rows) \in Nat
        BY MapFinite DEF OutboxTypeOK
    <2>2. Retained' = Cardinality(DOMAIN rows)
        BY <1>2 DEF Retained
    <2>3. ~cut_short => EvictedEnough(records')
        BY <1>1, <1>2 DEF Capacity
    <2>4. (~cut_short /\ Retained' > MaxRecords) => warned_at' # 0
        BY <1>1, <2>1, <2>2, OutboxAssumption
           DEF Capacity, EvictedEnough, WarnedAtBoot, OverCapacityOnDisk
    <2> QED
        BY <1>1, <1>3, <2>3, <2>4 DEF Capacity
<1> QED
    BY <1>4, <1>5

\* uplink-rescue: as many rows as before, with no hole between them.
LEMMA RescueAgrees ==
    ASSUME SafetyInv, AgreementInv, Rescue(CloudCursor)
    PROVE  AgreementInv'
<1> USE DEF SafetyInv, AgreementInv
<1> DEFINE n == CloudCursor
           k == Cardinality(DOMAIN rows)
<1>1. /\ ~up /\ n + k <= MaxSeq
      /\ rows' = Renumbered(n)
      /\ cursor' = [committed |-> n, last |-> n + k]
      /\ gap_rows' = {} /\ damaged' = FALSE
      /\ UNCHANGED <<up, op, cut_short>>
    BY DEF Rescue, RescueTarget
<1>2. n \in Nat /\ k \in Nat
    BY Numbers, MapFinite DEF OutboxTypeOK
<1>3. /\ DOMAIN rows' = (n + 1)..(n + k)
      /\ \A s \in DOMAIN rows' : \E t \in DOMAIN rows : rows'[s] = rows[t]
    BY <1>1, <1>2, RenumberedRows
<1> HIDE DEF n
<1>4. op'.step = "idle"
    BY <1>1, IdleShape DEF MemoryShape
<1>5. Agreement' /\ NoHoles'
    BY <1>1, <1>3, <1>4 DEF Agreement, NoHoles
<1>6. Capacity'
    <2>1. Cardinality(DOMAIN rows') = k
        <3> HIDE DEF k
        <3> QED
            BY <1>2, <1>3, FS_Interval
    <2>2. EvictableIn(rows) = {} => EvictableIn(rows') = {}
        BY <1>3 DEF EvictableIn
    <2>3. EvictedEnough(rows) => EvictedEnough(rows')
        BY <2>1, <2>2 DEF EvictedEnough
    <2> QED
        BY <1>1, <1>4, <2>3 DEF Capacity
<1> QED
    BY <1>5, <1>6

\* The cloud's steps and stuttering.
LEMMA QuietAgrees ==
    ASSUME SafetyInv, AgreementInv, Upload \/ UNCHANGED outboxVars
    PROVE  AgreementInv'
<1>1. UNCHANGED <<uplinkVars, up, op, warned_at, rows, cursor, gap_rows, historyVars>>
    BY DEF Upload, outboxVars, diskVars
<1>2. UNCHANGED <<records, last_allocated, committed_through, pending_gaps, damaged, cut_short,
                  Retained, EvictableIn(records), NextSequence>>
    BY <1>1 DEF uplinkVars, gapVars, historyVars, Retained, EvictableIn, NextSequence
<1>3. Agreement' /\ NoHoles'
    BY <1>1, <1>2 DEF AgreementInv, Agreement, NoHoles
<1>4. Capacity'
    BY <1>1, <1>2 DEF AgreementInv, Capacity, EvictedEnough, Retained, EvictableIn
<1> QED
    BY <1>3, <1>4 DEF AgreementInv

\* AgreementInv is inductive, given SafetyInv.
LEMMA AgreementStep ==
    SafetyInv /\ AgreementInv /\ [OutboxNext]_outboxVars => AgreementInv'
<1> SUFFICES ASSUME SafetyInv, AgreementInv, [OutboxNext]_outboxVars PROVE AgreementInv'
    OBVIOUS
<1>1. ASSUME NEW id \in EnvelopeIds, NEW r \in Retentions, AppendEnqueue(id, r)
      PROVE  AgreementInv'
    BY <1>1, AppendEnqueueAgrees
<1>2. ASSUME NEW c \in 0..CloudCursor, AckMemory(c) PROVE AgreementInv'
    BY <1>2, AckMemoryAgrees
<1>3. CASE AppendPublish
    BY <1>3, AppendPublishAgrees
<1>4. CASE EvictIfNeeded
    BY <1>4, EvictIfNeededAgrees
<1>5. CASE EvictDelete \/ EvictInsertGap \/ EvictFinish
    BY <1>5, EvictRestAgrees
<1>6. CASE AckDelete
    BY <1>6, AckDeleteAgrees
<1>7. CASE AckFinish \/ StoreError
    BY <1>7, AckFinishAgrees
<1>8. CASE Stop
    BY <1>8, StopAgrees
<1>9. CASE Open
    BY <1>9, OpenAgrees
<1>10. CASE Rescue(CloudCursor)
    BY <1>10, RescueAgrees
<1>11. CASE Upload \/ UNCHANGED outboxVars
    BY <1>11, QuietAgrees
<1> QED
    BY <1>1, <1>2, <1>3, <1>4, <1>5, <1>6, <1>7, <1>8, <1>9, <1>10, <1>11 DEF OutboxNext

\* What the inductive invariant says between two operations.
LEMMA DurableImpliesOutboxInv == SafetyInv /\ AgreementInv => OutboxInv
<1> SUFFICES ASSUME SafetyInv, AgreementInv PROVE OutboxInv
    OBVIOUS
<1> USE DEF SafetyInv, AgreementInv
<1>1. OutboxTypeOK
    OBVIOUS
<1>2. DiskAgrees
    <2> SUFFICES ASSUME up, op.step = "idle", ~damaged
                 PROVE  /\ rows = records
                        /\ cursor = [committed |-> committed_through, last |-> last_allocated]
        BY DEF DiskAgrees, At
    <2>1. rows = records /\ cursor.committed = committed_through /\ cursor.last = last_allocated
        BY DEF Agreement, CursorShape
    <2> QED
        BY <2>1 DEF OutboxTypeOK
<1>3. AcksAccepted
    <2> SUFFICES ASSUME op = Idle, ~damaged, gap_rows = {}
                 PROVE  /\ DOMAIN rows = (cursor.committed + 1)..cursor.last
                        /\ up => \A c \in 0..CloudCursor : ~AckRefused(c, {})
        BY DEF AcksAccepted
    <2>1. op.step = "idle"
        BY IdleShape
    <2>2. DOMAIN rows = (cursor.committed + 1)..cursor.last
        BY <2>1 DEF NoHoles, Agreement, CursorShape
    <2>3. ASSUME up, NEW c \in 0..CloudCursor PROVE ~AckRefused(c, {})
        <3>1. /\ DOMAIN records = (committed_through + 1)..last_allocated
              /\ cursor.last = last_allocated
            BY <2>1, <2>3 DEF NoHoles, CursorShape
        <3>2. CloudCursor <= last_allocated
            BY <2>2, <3>1, Numbers DEF CursorShape
        <3>3. c \in Nat /\ c <= last_allocated
            BY <3>2, Numbers
        <3>4. ~CrossesUnresolved(c)
            BY <3>1, <3>3, Numbers DEF CrossesUnresolved
        <3> QED
            BY <3>3, <3>4, Numbers DEF AckRefused, InvalidHint
    <2> QED
        BY <2>2, <2>3
<1>4. OverflowSignalled
    BY MapFinite, OutboxAssumption
       DEF OverflowSignalled, At, Capacity, EvictedEnough, Retained, OutboxTypeOK, UplinkTypeOK
<1> QED
    BY <1>1, <1>2, <1>3, <1>4 DEF OutboxInv

\* Memory, disk and alarm agree between the operations of the outbox: the types
\* of the tables; rows and cursor are those in memory unless an operation was cut
\* short; observe_ack refuses nothing the cloud can acknowledge unless a record
\* was evicted; and beyond the capacity there are Protected records only, with
\* the alarm raised.
THEOREM OutboxInvariant == CloudStart = 0 /\ OutboxSpec => []OutboxInv
<1>1. CloudStart = 0 /\ OutboxInit => SafetyInv /\ AgreementInv
    BY OutboxInitSafe, OutboxInitAgrees
<1>2. SafetyInv /\ AgreementInv /\ [OutboxNext]_outboxVars => SafetyInv' /\ AgreementInv'
    BY SafetyStep, AgreementStep
<1> QED
    BY <1>1, <1>2, DurableImpliesOutboxInv, PTL DEF OutboxSpec
=============================================================================
