-------------------------- MODULE UplinkStateProofs --------------------------
(***************************************************************************)
(* UplinkState for every set of envelopes and gaps and every width of a    *)
(* sequence number: its invariant and its action properties.               *)
(*                                                                         *)
(* UplinkInv is inductive.  The parts need each other: that nothing is     *)
(* forgotten when a gap is accepted rests on the gaps being disjoint       *)
(* (OneFate), and that hints stay unsettled rests on the cursor staying    *)
(* below last_allocated (NothingForgotten).                                *)
(***************************************************************************)
EXTENDS UplinkState, TLAPS

\* A fresh gap (declare_loss) adds its sequences.
LEMMA PutGapSequences ==
    ASSUME NEW gaps, NEW g, g \notin DOMAIN gaps, NEW X
    PROVE  GapSequences(Put(gaps, g, X)) = GapSequences(gaps) \cup X
BY DEF GapSequences, Put

\* A gap that leaves the map (accept_gap) takes its own sequences away.
LEMMA WithoutGapSequences ==
    ASSUME NEW gaps, NEW g \in DOMAIN gaps,
           \A h \in DOMAIN gaps : h # g => gaps[h] \cap gaps[g] = {}
    PROVE  GapSequences(Without(gaps, {g})) = GapSequences(gaps) \ gaps[g]
BY DEF GapSequences, Without

\* UplinkState::new satisfies the invariant.
LEMMA InitInv == UplinkInit => UplinkInv
<1> SUFFICES ASSUME UplinkInit PROVE UplinkInv
    OBVIOUS
<1> USE DEF UplinkInit
<1>1. DOMAIN EmptyMap = {}
    BY DEF EmptyMap
<1>2. \A S, T : IsMap(EmptyMap, S, T)
    BY DEF EmptyMap, IsMap
<1>3. GapSequences(EmptyMap) = {}
    BY <1>1 DEF GapSequences
<1>4. UplinkTypeOK
    <2>1. last_allocated \in Cursors /\ committed_through \in Cursors
        BY MaxSeqAssumption DEF Cursors
    <2>2. more_missing \in BOOLEAN
        OBVIOUS
    <2> QED
        BY <1>2, <2>1, <2>2, Zenon DEF UplinkTypeOK
<1>5. NothingForgotten /\ OneFate /\ IndexAgrees /\ HintsUnsettled
    BY <1>1, <1>3 DEF NothingForgotten, OneFate, IndexAgrees, HintsUnsettled, Unsettled
<1> QED
    BY <1>4, <1>5 DEF UplinkInv

\* An unchanged journal keeps the invariant.
LEMMA StutterInv == UplinkInv /\ UNCHANGED uplinkVars => UplinkInv'
BY DEF UplinkInv, uplinkVars, gapVars, hintVars, UplinkTypeOK, NothingForgotten,
       OneFate, IndexAgrees, HintsUnsettled, Unsettled

\* append: the new record takes the next sequence, above everything.
LEMMA AppendInv ==
    ASSUME UplinkInv, NEW id \in EnvelopeIds, NEW r \in RetentionClass,
           UplinkAppend(id, r)
    PROVE  UplinkInv'
<1>1. CASE UNCHANGED uplinkVars
    BY <1>1, StutterInv
<1>2. CASE ~DuplicateEnvelopeId(id) /\ ~SequenceExhausted /\ AppendRecord(id, r)
    <2> DEFINE n == last_allocated + 1
               rec == [envelope_id |-> id, retention |-> r]
    <2>1. /\ last_allocated \in Nat /\ committed_through \in Nat
          /\ committed_through <= last_allocated
          /\ n \in Seqs /\ n \in Cursors
          /\ DOMAIN records \subseteq Unsettled
          /\ GapSequences(pending_gaps) \subseteq Unsettled
          /\ accepted_loss_sequences \subseteq Unsettled
        BY <1>2, MaxSeqAssumption DEF SequenceExhausted, UplinkInv, UplinkTypeOK,
           NothingForgotten, Cursors, Seqs
    <2>2. /\ last_allocated' = n
          /\ records' = Put(records, n, rec)
          /\ envelope_sequences' = Put(envelope_sequences, id, n)
          /\ id \notin DOMAIN envelope_sequences
          /\ UNCHANGED <<committed_through, missing, more_missing, pending_gaps,
                         accepted_gaps, accepted_loss_sequences>>
        BY <1>2 DEF AppendRecord, NextSequence, DuplicateEnvelopeId, hintVars, gapVars
    <2>3. rec \in UplinkRecord /\ rec.envelope_id = id
        BY DEF UplinkRecord
    <2> HIDE DEF rec, n
    <2>4. /\ IsMap(records', Seqs, UplinkRecord)
          /\ DOMAIN records' = DOMAIN records \cup {n}
          /\ records'[n] = rec
          /\ \A s \in DOMAIN records : s # n => records'[s] = records[s]
        <3>1. IsMap(records, Seqs, UplinkRecord)
            BY DEF UplinkInv, UplinkTypeOK
        <3>2. /\ IsMap(Put(records, n, rec), Seqs, UplinkRecord)
              /\ DOMAIN Put(records, n, rec) = DOMAIN records \cup {n}
              /\ Put(records, n, rec)[n] = rec
              /\ \A s \in DOMAIN records : s # n => Put(records, n, rec)[s] = records[s]
            BY <2>1, <2>3, <3>1 DEF IsMap, Put
        <3> QED
            BY <2>2, <3>2
    <2>5. /\ IsMap(envelope_sequences', EnvelopeIds, Seqs)
          /\ DOMAIN envelope_sequences' = DOMAIN envelope_sequences \cup {id}
          /\ envelope_sequences'[id] = n
          /\ \A x \in DOMAIN envelope_sequences :
                x # id => envelope_sequences'[x] = envelope_sequences[x]
        <3>1. IsMap(envelope_sequences, EnvelopeIds, Seqs)
            BY DEF UplinkInv, UplinkTypeOK
        <3>2. LET m == Put(envelope_sequences, id, n)
              IN  /\ IsMap(m, EnvelopeIds, Seqs)
                  /\ DOMAIN m = DOMAIN envelope_sequences \cup {id}
                  /\ m[id] = n
                  /\ \A x \in DOMAIN envelope_sequences :
                        x # id => m[x] = envelope_sequences[x]
            BY <2>1, <3>1 DEF IsMap, Put
        <3> QED
            BY <2>2, <3>2
    <2> USE DEF n
    <2>6. UplinkTypeOK'
        BY <2>1, <2>2, <2>4, <2>5 DEF UplinkInv, UplinkTypeOK
    <2>7. Unsettled' = Unsettled \cup {n}
        BY <2>1, <2>2 DEF Unsettled
    <2>8. GapSequences(pending_gaps') = GapSequences(pending_gaps)
        BY <2>2
    <2>9. NothingForgotten'
        BY <2>1, <2>2, <2>4, <2>7, <2>8 DEF UplinkInv, NothingForgotten
    <2>10. OneFate'
        <3>1. n \notin Unsettled
            BY <2>1 DEF Unsettled
        <3> QED
            BY <2>1, <2>2, <2>4, <2>8, <3>1 DEF UplinkInv, OneFate
    <2>11. IndexAgrees'
        <3>1. /\ \A x \in DOMAIN envelope_sequences :
                    envelope_sequences[x] \in Nat /\ envelope_sequences[x] <= last_allocated
              /\ n \notin DOMAIN records
              /\ \A s \in DOMAIN records : records[s].envelope_id # id
            BY <2>1, <2>2 DEF UplinkInv, UplinkTypeOK, IndexAgrees, IsMap, Unsettled, Seqs
        <3>2. \A s \in DOMAIN records' :
                 /\ records'[s].envelope_id \in DOMAIN envelope_sequences'
                 /\ envelope_sequences'[records'[s].envelope_id] = s
            BY <2>3, <2>4, <2>5, <3>1 DEF UplinkInv, IndexAgrees
        <3>3. \A x \in DOMAIN envelope_sequences' : envelope_sequences'[x] <= last_allocated'
            BY <2>1, <2>2, <2>5, <3>1
        <3>4. \A x, y \in DOMAIN envelope_sequences' :
                 envelope_sequences'[x] = envelope_sequences'[y] => x = y
            BY <2>1, <2>2, <2>5, <3>1 DEF UplinkInv, IndexAgrees
        <3> QED
            BY <3>2, <3>3, <3>4 DEF IndexAgrees
    <2>12. HintsUnsettled'
        BY <2>2, <2>7 DEF UplinkInv, HintsUnsettled
    <2> QED
        BY <2>6, <2>9, <2>10, <2>11, <2>12 DEF UplinkInv
<1> QED
    BY <1>1, <1>2 DEF UplinkAppend

\* declare_loss: the records named become a pending gap.
LEMMA DeclareLossInv ==
    ASSUME UplinkInv, NEW g \in GapIds, NEW S \in SUBSET Seqs, DeclareLoss(g, S)
    PROVE  UplinkInv'
<1>1. CASE UNCHANGED uplinkVars
    BY <1>1, StutterInv
<1>2. CASE ~LossRefused(g, S) /\ ~UNCHANGED uplinkVars
    <2>1. /\ records' = Without(records, S)
          /\ pending_gaps' = Put(pending_gaps, g, S)
          /\ g \notin DOMAIN pending_gaps
          /\ S \subseteq DOMAIN records
          /\ UNCHANGED <<last_allocated, committed_through, envelope_sequences,
                         missing, more_missing, accepted_gaps,
                         accepted_loss_sequences>>
        BY <1>2 DEF DeclareLoss, LossRefused, Evictable, hintVars
    <2>2. /\ IsMap(records', Seqs, UplinkRecord)
          /\ DOMAIN records' = DOMAIN records \ S
          /\ \A s \in DOMAIN records' : records'[s] = records[s]
        <3>1. IsMap(records, Seqs, UplinkRecord)
            BY DEF UplinkInv, UplinkTypeOK
        <3> QED
            BY <2>1, <3>1 DEF IsMap, Without
    <2>3. /\ IsMap(pending_gaps', GapIds, SUBSET Seqs)
          /\ DOMAIN pending_gaps' = DOMAIN pending_gaps \cup {g}
          /\ pending_gaps'[g] = S
          /\ \A h \in DOMAIN pending_gaps : pending_gaps'[h] = pending_gaps[h]
        <3>1. IsMap(pending_gaps, GapIds, SUBSET Seqs)
            BY DEF UplinkInv, UplinkTypeOK
        <3> QED
            BY <2>1, <3>1 DEF IsMap, Put
    <2>4. GapSequences(pending_gaps') = GapSequences(pending_gaps) \cup S
        BY <2>1, PutGapSequences
    <2>5. UplinkTypeOK'
        BY <2>1, <2>2, <2>3 DEF UplinkInv, UplinkTypeOK
    <2>6. NothingForgotten'
        BY <2>1, <2>2, <2>4 DEF UplinkInv, NothingForgotten, Unsettled
    <2>7. OneFate'
        <3>1. \A h \in DOMAIN pending_gaps : pending_gaps[h] \cap S = {}
            BY <2>1 DEF UplinkInv, OneFate, GapSequences
        <3>2. \A h, k \in DOMAIN pending_gaps' :
                 h # k => pending_gaps'[h] \cap pending_gaps'[k] = {}
            BY <2>1, <2>3, <3>1 DEF UplinkInv, OneFate
        <3> QED
            BY <2>1, <2>2, <2>4, <3>2 DEF UplinkInv, OneFate
    <2>8. IndexAgrees'
        BY <2>1, <2>2 DEF UplinkInv, IndexAgrees
    <2>9. HintsUnsettled'
        BY <2>1 DEF UplinkInv, HintsUnsettled, Unsettled
    <2> QED
        BY <2>5, <2>6, <2>7, <2>8, <2>9 DEF UplinkInv
<1> QED
    BY <1>1, <1>2 DEF DeclareLoss

\* observe_ack: the cursor moves over records and accepted losses only.
LEMMA ObserveAckInv ==
    ASSUME UplinkInv, NEW c \in Cursors, NEW M \in SUBSET Seqs, NEW more \in BOOLEAN,
           ObserveAck(c, M, more)
    PROVE  UplinkInv'
<1>1. CASE UNCHANGED uplinkVars
    BY <1>1, StutterInv
<1>2. CASE ~StaleAck(c) /\ ~AckRefused(c, M) /\ ~UNCHANGED uplinkVars
    <2> DEFINE passed == (committed_through + 1)..c
    <2>1. /\ records' = Without(records, DOMAIN records \cap passed)
          /\ accepted_loss_sequences' = accepted_loss_sequences \ passed
          /\ committed_through' = c
          /\ missing' = M
          /\ more_missing' = more
          /\ UNCHANGED <<last_allocated, envelope_sequences, pending_gaps, accepted_gaps>>
        BY <1>2 DEF ObserveAck, AckDeletes
    <2>2. /\ committed_through \in Nat /\ last_allocated \in Nat /\ c \in Nat
          /\ committed_through <= c /\ c <= last_allocated
          /\ \A s \in M : c < s /\ s <= last_allocated
          /\ passed \subseteq DOMAIN records \cup accepted_loss_sequences
        BY <1>2, MaxSeqAssumption
           DEF StaleAck, AckRefused, InvalidHint, CrossesUnresolved, UplinkInv,
               UplinkTypeOK, Cursors, Seqs
    <2>3. /\ IsMap(records', Seqs, UplinkRecord)
          /\ DOMAIN records' = DOMAIN records \ passed
          /\ \A s \in DOMAIN records' : records'[s] = records[s]
        <3>1. IsMap(records, Seqs, UplinkRecord)
            BY DEF UplinkInv, UplinkTypeOK
        <3> HIDE DEF passed
        <3> QED
            BY <2>1, <3>1 DEF IsMap, Without
    <2>4. UplinkTypeOK'
        BY <2>1, <2>3 DEF UplinkInv, UplinkTypeOK
    <2>5. Unsettled' = Unsettled \ passed
        BY <2>1, <2>2 DEF Unsettled
    <2>6. GapSequences(pending_gaps) \cap passed = {}
        BY <2>2 DEF UplinkInv, OneFate
    <2>7. NothingForgotten'
        <3> HIDE DEF passed
        <3> QED
            BY <2>1, <2>2, <2>3, <2>5, <2>6 DEF UplinkInv, NothingForgotten
    <2>8. OneFate'
        <3> HIDE DEF passed
        <3> QED
            BY <2>1, <2>3 DEF UplinkInv, OneFate
    <2>9. IndexAgrees'
        <3> HIDE DEF passed
        <3> QED
            BY <2>1, <2>3 DEF UplinkInv, IndexAgrees
    <2>10. HintsUnsettled'
        BY <2>1, <2>2 DEF HintsUnsettled, Unsettled, Seqs
    <2> QED
        BY <2>4, <2>7, <2>8, <2>9, <2>10 DEF UplinkInv
<1> QED
    BY <1>1, <1>2 DEF ObserveAck

\* accept_gap: the gap's sequences become accepted losses and the cursor
\* moves over those it meets.
LEMMA AcceptGapInv ==
    ASSUME UplinkInv, NEW g \in GapIds, AcceptGap(g)
    PROVE  UplinkInv'
<1>1. CASE UNCHANGED uplinkVars
    BY <1>1, StutterInv
<1>2. CASE g \in DOMAIN pending_gaps \ DOMAIN accepted_gaps /\ ~UNCHANGED uplinkVars
    <2> DEFINE losses == accepted_loss_sequences \cup pending_gaps[g]
    <2>1. PICK d \in Cursors :
             /\ AdvancesTo(committed_through, losses, d)
             /\ committed_through' = d
             /\ accepted_loss_sequences' = losses \ ((committed_through + 1)..d)
             /\ PruneHint(committed_through, d)
        BY <1>2 DEF AcceptGap
    <2>2. /\ pending_gaps' = Without(pending_gaps, {g})
          /\ accepted_gaps' = Put(accepted_gaps, g, pending_gaps[g])
          /\ UNCHANGED <<last_allocated, records, envelope_sequences>>
        BY <1>2 DEF AcceptGap
    <2> DEFINE passed == (committed_through + 1)..d
    <2>3. /\ committed_through \in Nat /\ last_allocated \in Nat /\ d \in Nat
          /\ committed_through <= last_allocated
          /\ committed_through <= d
          /\ passed \subseteq losses
        BY <2>1, MaxSeqAssumption
           DEF AdvancesTo, UplinkInv, UplinkTypeOK, NothingForgotten, Cursors
    <2>4. /\ losses \in SUBSET Seqs
          /\ pending_gaps[g] \in SUBSET Seqs
          /\ pending_gaps[g] \subseteq GapSequences(pending_gaps)
        BY <1>2 DEF UplinkInv, UplinkTypeOK, IsMap, GapSequences
    <2>5. /\ DOMAIN records \cap losses = {}
          /\ losses \subseteq Unsettled
        BY <2>4 DEF UplinkInv, OneFate, NothingForgotten
    <2>6. d <= last_allocated
        <3>1. d = committed_through \/ d \in passed
            BY <2>3
        <3> QED
            BY <2>3, <2>5, <3>1 DEF Unsettled
    <2>7. /\ IsMap(pending_gaps', GapIds, SUBSET Seqs)
          /\ DOMAIN pending_gaps' = DOMAIN pending_gaps \ {g}
          /\ \A h \in DOMAIN pending_gaps' : pending_gaps'[h] = pending_gaps[h]
        <3>1. IsMap(pending_gaps, GapIds, SUBSET Seqs)
            BY DEF UplinkInv, UplinkTypeOK
        <3> QED
            BY <2>2, <3>1 DEF IsMap, Without
    <2>8. IsMap(accepted_gaps', GapIds, SUBSET Seqs)
        <3>1. IsMap(accepted_gaps, GapIds, SUBSET Seqs)
            BY DEF UplinkInv, UplinkTypeOK
        <3> QED
            BY <2>2, <2>4, <3>1 DEF IsMap, Put
    <2>9. GapSequences(pending_gaps') = GapSequences(pending_gaps) \ pending_gaps[g]
        <3>1. \A h \in DOMAIN pending_gaps :
                 h # g => pending_gaps[h] \cap pending_gaps[g] = {}
            BY <1>2 DEF UplinkInv, OneFate
        <3> QED
            BY <1>2, <2>2, <3>1, WithoutGapSequences
    <2>10. Unsettled' = Unsettled \ passed
        BY <2>1, <2>2, <2>3 DEF Unsettled
    <2>11. missing' \subseteq missing \cap Unsettled' /\ more_missing' \in BOOLEAN
        <3>1. missing' = IF d = committed_through THEN missing
                         ELSE {s \in missing : s > d}
            BY <2>1 DEF PruneHint
        <3>2. missing \subseteq Unsettled
            BY DEF UplinkInv, HintsUnsettled
        <3>3. missing' \subseteq missing \cap Unsettled'
            <4>1. CASE d = committed_through
                <5>1. Unsettled' = Unsettled
                    BY <4>1, <2>1, <2>2 DEF Unsettled
                <5> QED
                    BY <4>1, <5>1, <3>1, <3>2
            <4>2. CASE d # committed_through
                <5>1. \A s \in missing : s \in Int /\ s <= last_allocated
                    BY <2>3, <3>2 DEF Unsettled
                <5>2. missing' = {s \in missing : s > d}
                    BY <4>2, <3>1
                <5>3. Unsettled' = (d + 1)..last_allocated
                    BY <2>1, <2>2 DEF Unsettled
                <5> HIDE DEF passed, losses
                <5> QED
                    BY <2>3, <5>1, <5>2, <5>3
            <4> QED
                BY <4>1, <4>2
        <3>4. more_missing' \in BOOLEAN
            BY <2>1 DEF PruneHint
        <3> QED
            BY <3>3, <3>4
    <2> HIDE DEF passed, losses
    <2>12. UplinkTypeOK'
        <3>1. accepted_loss_sequences' \in SUBSET Seqs /\ missing' \in SUBSET Seqs
            BY <2>1, <2>4, <2>11 DEF UplinkInv, UplinkTypeOK
        <3> QED
            BY <2>1, <2>2, <2>7, <2>8, <2>11, <3>1 DEF UplinkInv, UplinkTypeOK
    <2>13. accepted_loss_sequences' = losses \ passed
        BY <2>1 DEF passed
    <2>14. losses = accepted_loss_sequences \cup pending_gaps[g]
        BY DEF losses
    <2>15. NothingForgotten'
        <3>1. DOMAIN records \cup GapSequences(pending_gaps') \cup losses = Unsettled
            BY <2>4, <2>9, <2>14 DEF UplinkInv, NothingForgotten
        <3>2. DOMAIN records \cap passed = {}
            BY <2>3, <2>5
        <3>3. GapSequences(pending_gaps') \cap losses = {}
            BY <2>9, <2>14 DEF UplinkInv, OneFate
        <3>4. DOMAIN records \cup GapSequences(pending_gaps') \cup (losses \ passed)
                 = Unsettled \ passed
            BY <2>3, <3>1, <3>2, <3>3
        <3>5. committed_through' <= last_allocated'
            BY <2>1, <2>2, <2>6
        <3> QED
            BY <2>2, <2>10, <2>13, <3>4, <3>5 DEF NothingForgotten
    <2>16. OneFate'
        <3>1. GapSequences(pending_gaps') \cap losses = {}
            BY <2>9, <2>14 DEF UplinkInv, OneFate
        <3> QED
            BY <2>2, <2>5, <2>7, <2>9, <2>13, <3>1 DEF UplinkInv, OneFate
    <2>17. IndexAgrees'
        BY <2>2 DEF UplinkInv, IndexAgrees
    <2>18. HintsUnsettled'
        BY <2>11 DEF HintsUnsettled
    <2> QED
        BY <2>12, <2>15, <2>16, <2>17, <2>18 DEF UplinkInv
<1> QED
    BY <1>1, <1>2 DEF AcceptGap

\* The journal's invariant: no order of appends, acknowledgements, declared
\* and accepted losses makes it forget a sequence, give one two fates, or
\* keep a hint below the cursor.
THEOREM UplinkInvariant == UplinkSpec => []UplinkInv
<1>1. UplinkInv /\ [UplinkNext]_uplinkVars => UplinkInv'
    <2> SUFFICES ASSUME UplinkInv, [UplinkNext]_uplinkVars PROVE UplinkInv'
        OBVIOUS
    <2>1. CASE UNCHANGED uplinkVars
        BY <2>1, StutterInv
    <2>2. ASSUME NEW id \in EnvelopeIds, NEW r \in RetentionClass, UplinkAppend(id, r)
          PROVE  UplinkInv'
        BY <2>2, AppendInv
    <2>3. ASSUME NEW g \in GapIds, NEW S \in SUBSET Seqs, DeclareLoss(g, S)
          PROVE  UplinkInv'
        BY <2>3, DeclareLossInv
    <2>4. ASSUME NEW g \in GapIds, AcceptGap(g)
          PROVE  UplinkInv'
        BY <2>4, AcceptGapInv
    <2>5. ASSUME NEW c \in Cursors, NEW M \in SUBSET Seqs, NEW more \in BOOLEAN,
                 ObserveAck(c, M, more)
          PROVE  UplinkInv'
        BY <2>5, ObserveAckInv
    <2> QED
        BY <2>1, <2>2, <2>3, <2>4, <2>5 DEF UplinkNext
<1> QED
    BY InitInv, <1>1, PTL DEF UplinkSpec

\* Type correctness of the journal.
THEOREM UplinkTypeCorrect == UplinkSpec => []UplinkTypeOK
<1>1. UplinkInv => UplinkTypeOK
    BY DEF UplinkInv
<1> QED
    BY <1>1, UplinkInvariant, PTL

\* No sequence above the cursor is ever forgotten.
THEOREM NothingIsForgotten == UplinkSpec => []NothingForgotten
<1>1. UplinkInv => NothingForgotten
    BY DEF UplinkInv
<1> QED
    BY <1>1, UplinkInvariant, PTL

\* No sequence ever has two fates.
THEOREM EverySequenceHasOneFate == UplinkSpec => []OneFate
<1>1. UplinkInv => OneFate
    BY DEF UplinkInv
<1> QED
    BY <1>1, UplinkInvariant, PTL

\* The index by envelope id and the records never disagree.
THEOREM IndexAlwaysAgrees == UplinkSpec => []IndexAgrees
<1>1. UplinkInv => IndexAgrees
    BY DEF UplinkInv
<1> QED
    BY <1>1, UplinkInvariant, PTL

\* The recovery hint never names a settled sequence.
THEOREM HintsStayUnsettled == UplinkSpec => []HintsUnsettled
<1>1. UplinkInv => HintsUnsettled
    BY DEF UplinkInv
<1> QED
    BY <1>1, UplinkInvariant, PTL

\* Every record that leaves the journal is accounted for, and so is every
\* declared loss.
THEOREM NothingLeavesUnaccounted == UplinkSpec => RecordsLeaveAccountedFor
<1> DEFINE Leaves ==
       /\ \A s \in DOMAIN records \ DOMAIN records' :
             \/ s <= committed_through'
             \/ /\ records[s].retention = "Evictable"
                /\ s \in GapSequences(pending_gaps')
       /\ \A s \in GapSequences(pending_gaps) :
             \/ s \in GapSequences(pending_gaps')
             \/ s \in GapSequences(accepted_gaps')
<1>1. UplinkInv /\ [UplinkNext]_uplinkVars => [Leaves]_uplinkVars
    <2> SUFFICES ASSUME UplinkInv, UplinkNext, ~UNCHANGED uplinkVars
                 PROVE  Leaves
        OBVIOUS
    <2>1. ASSUME NEW id \in EnvelopeIds, NEW r \in RetentionClass, UplinkAppend(id, r)
          PROVE  Leaves
        BY <2>1 DEF UplinkAppend, AppendRecord, Put, gapVars
    <2>2. ASSUME NEW g \in GapIds, NEW S \in SUBSET Seqs, DeclareLoss(g, S)
          PROVE  Leaves
        <3>1. /\ ~LossRefused(g, S)
              /\ records' = Without(records, S)
              /\ pending_gaps' = Put(pending_gaps, g, S)
            BY <2>2 DEF DeclareLoss
        <3>2. GapSequences(pending_gaps') = GapSequences(pending_gaps) \cup S
            BY <3>1, PutGapSequences DEF LossRefused
        <3>3. DOMAIN records \ DOMAIN records' \subseteq S
            BY <3>1 DEF Without
        <3>4. \A s \in S : records[s].retention = "Evictable"
            BY <3>1 DEF LossRefused, Evictable
        <3> QED
            BY <3>2, <3>3, <3>4
    <2>3. ASSUME NEW g \in GapIds, AcceptGap(g)
          PROVE  Leaves
        <3>1. /\ g \in DOMAIN pending_gaps \ DOMAIN accepted_gaps
              /\ pending_gaps' = Without(pending_gaps, {g})
              /\ accepted_gaps' = Put(accepted_gaps, g, pending_gaps[g])
              /\ records' = records
            BY <2>3 DEF AcceptGap
        <3>2. GapSequences(accepted_gaps') = GapSequences(accepted_gaps) \cup pending_gaps[g]
            BY <3>1, PutGapSequences
        <3>3. GapSequences(pending_gaps') = GapSequences(pending_gaps) \ pending_gaps[g]
            BY <3>1, WithoutGapSequences DEF UplinkInv, OneFate
        <3> QED
            BY <3>1, <3>2, <3>3
    <2>4. ASSUME NEW c \in Cursors, NEW M \in SUBSET Seqs, NEW more \in BOOLEAN,
                 ObserveAck(c, M, more)
          PROVE  Leaves
        <3>1. /\ records' = Without(records, AckDeletes(c))
              /\ committed_through' = c
              /\ UNCHANGED pending_gaps
            BY <2>4 DEF ObserveAck
        <3>2. \A s \in AckDeletes(c) : s <= c
            BY DEF AckDeletes
        <3>3. DOMAIN records \ DOMAIN records' \subseteq AckDeletes(c)
            BY <3>1 DEF Without
        <3> QED
            BY <3>1, <3>2, <3>3
    <2> QED
        BY <2>1, <2>2, <2>3, <2>4 DEF UplinkNext
<1> QED
    BY <1>1, UplinkInvariant, PTL DEF UplinkSpec, RecordsLeaveAccountedFor

\* Sequences are given once and the cursor never moves back.
THEOREM SequencesNeverChange == UplinkSpec => SequencesStable
<1> DEFINE Stable ==
       /\ committed_through' >= committed_through
       /\ last_allocated' >= last_allocated
       /\ \A id \in DOMAIN envelope_sequences :
             /\ id \in DOMAIN envelope_sequences'
             /\ envelope_sequences'[id] = envelope_sequences[id]
<1>1. UplinkInv /\ [UplinkNext]_uplinkVars => [Stable]_uplinkVars
    <2> SUFFICES ASSUME UplinkInv, UplinkNext, ~UNCHANGED uplinkVars
                 PROVE  Stable
        OBVIOUS
    <2>0. committed_through \in Nat /\ last_allocated \in Nat
        BY MaxSeqAssumption DEF UplinkInv, UplinkTypeOK, Cursors
    <2>1. ASSUME NEW id \in EnvelopeIds, NEW r \in RetentionClass, UplinkAppend(id, r)
          PROVE  Stable
        <3>1. /\ ~DuplicateEnvelopeId(id)
              /\ AppendRecord(id, r)
            BY <2>1 DEF UplinkAppend
        <3> QED
            BY <2>0, <3>1 DEF AppendRecord, DuplicateEnvelopeId, NextSequence, Put
    <2>2. ASSUME NEW g \in GapIds, NEW S \in SUBSET Seqs, DeclareLoss(g, S)
          PROVE  Stable
        BY <2>0, <2>2 DEF DeclareLoss
    <2>3. ASSUME NEW g \in GapIds, AcceptGap(g)
          PROVE  Stable
        <3>1. PICK d \in Cursors :
                 d >= committed_through /\ committed_through' = d
            BY <2>3 DEF AcceptGap, AdvancesTo
        <3>2. UNCHANGED <<last_allocated, envelope_sequences>>
            BY <2>3 DEF AcceptGap
        <3> QED
            BY <2>0, <3>1, <3>2
    <2>4. ASSUME NEW c \in Cursors, NEW M \in SUBSET Seqs, NEW more \in BOOLEAN,
                 ObserveAck(c, M, more)
          PROVE  Stable
        BY <2>0, <2>4, MaxSeqAssumption DEF ObserveAck, StaleAck, Cursors
    <2> QED
        BY <2>1, <2>2, <2>3, <2>4 DEF UplinkNext
<1> QED
    BY <1>1, UplinkInvariant, PTL DEF UplinkSpec, SequencesStable
=============================================================================
