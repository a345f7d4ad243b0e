----------------------------- MODULE UplinkState -----------------------------
(***************************************************************************)
(* The sequenced uplink journal of the edge: edge-uplink/src/lib.rs.       *)
(*                                                                         *)
(* Every envelope the edge uploads gets the next sequence number and is    *)
(* retained until a cumulative acknowledgement of the cloud covers it, or  *)
(* until it is replaced by an explicit loss marker (an UplinkGap) that the *)
(* cloud accepts.  `committed_through' is the cursor of what is settled.   *)
(*                                                                         *)
(* The state is that of struct UplinkState.  A list of ranges (the         *)
(* missing_ranges of an acknowledgement, the ranges of a gap) is the set   *)
(* of the sequences it names; payloads are left out.  A call that returns  *)
(* an error or is a no-op leaves the state alone: it is a disjunct of its  *)
(* action that changes nothing.                                            *)
(***************************************************************************)
EXTENDS Integers, FiniteSets

CONSTANTS
    EnvelopeIds,   \* identities of envelopes
    GapIds,        \* identities of loss markers
    MaxSeq         \* u64::MAX of the code: no sequence is larger

ASSUME MaxSeqAssumption == MaxSeq \in Nat \ {0}

VARIABLES
    last_allocated,
    committed_through,
    records,                 \* sequence -> retained record
    envelope_sequences,      \* envelope id -> the sequence it was given
    missing,                 \* missing_ranges: the cloud's recovery hint
    more_missing,
    pending_gaps,            \* gap id -> sequences declared lost
    accepted_gaps,           \* gap id -> sequences the cloud knows are lost
    accepted_loss_sequences  \* accepted losses the cursor has not passed yet

gapVars == <<pending_gaps, accepted_gaps, accepted_loss_sequences>>
hintVars == <<missing, more_missing>>
uplinkVars == <<last_allocated, committed_through, records, envelope_sequences,
                hintVars, gapVars>>

-----------------------------------------------------------------------------
Seqs == 1..MaxSeq
Cursors == 0..MaxSeq
RetentionClass == {"Protected", "Evictable"}
UplinkRecord == [envelope_id : EnvelopeIds, retention : RetentionClass]

\* A map from a part of S to T: the code's BTreeMaps.
IsMap(m, S, T) == DOMAIN m \subseteq S /\ m \in [DOMAIN m -> T]

EmptyMap == [x \in {} |-> x]
Put(m, k, v) == [x \in DOMAIN m \cup {k} |-> IF x = k THEN v ELSE m[x]]
Without(m, S) == [x \in DOMAIN m \ S |-> m[x]]

\* The sequences named by the gaps of a map.
GapSequences(gaps) == UNION {gaps[g] : g \in DOMAIN gaps}

\* Mutant: any retained record may be evicted.
EvictableMutant(s) == s \in DOMAIN records
Evictable(s) == s \in DOMAIN records /\ records[s].retention = "Evictable"

UplinkInit ==
    /\ last_allocated = 0
    /\ committed_through = 0
    /\ records = EmptyMap
    /\ envelope_sequences = EmptyMap
    /\ missing = {} /\ more_missing = FALSE
    /\ pending_gaps = EmptyMap
    /\ accepted_gaps = EmptyMap
    /\ accepted_loss_sequences = {}

-----------------------------------------------------------------------------
(* append *)

DuplicateEnvelopeId(id) == id \in DOMAIN envelope_sequences
SequenceExhausted == last_allocated = MaxSeq
NextSequence == last_allocated + 1

\* The state after a successful append.
AppendRecord(id, retention) ==
    /\ last_allocated' = NextSequence
    /\ envelope_sequences' = Put(envelope_sequences, id, NextSequence)
    /\ records' = Put(records, NextSequence,
                      [envelope_id |-> id, retention |-> retention])
    /\ UNCHANGED <<committed_through, hintVars, gapVars>>

UplinkAppend(id, retention) ==
    \/ /\ ~DuplicateEnvelopeId(id)
       /\ ~SequenceExhausted
       /\ AppendRecord(id, retention)
    \/ /\ DuplicateEnvelopeId(id) \/ SequenceExhausted
       /\ UNCHANGED uplinkVars

-----------------------------------------------------------------------------
(* declare_loss: the named records must all be retained and Evictable. *)

LossRefused(g, S) ==
    \/ g \in DOMAIN pending_gaps \cup DOMAIN accepted_gaps
    \/ S = {}
    \/ \E s \in S : ~Evictable(s)

DeclareLoss(g, S) ==
    \/ /\ ~LossRefused(g, S)
       /\ records' = Without(records, S)
       /\ pending_gaps' = Put(pending_gaps, g, S)
       /\ UNCHANGED <<last_allocated, committed_through, envelope_sequences,
                      hintVars, accepted_gaps, accepted_loss_sequences>>
    \/ /\ LossRefused(g, S)
       /\ UNCHANGED uplinkVars

-----------------------------------------------------------------------------
(* accept_gap *)

\* advance_across_accepted_losses: d is where the cursor c comes to rest, the
\* first place whose next sequence is no accepted loss.
AdvancesTo(c, losses, d) ==
    /\ d >= c
    /\ (c + 1)..d \subseteq losses
    /\ (d + 1) \notin losses

\* prune_committed_missing_ranges: when the cursor moved, the hint loses what
\* is now at or below it.  At u64::MAX the whole hint is cleared.
PruneHint(c, d) ==
    /\ missing' = IF d = c THEN missing ELSE {s \in missing : s > d}
    /\ more_missing' = (more_missing /\ ~(d # c /\ d = MaxSeq))

AcceptGap(g) ==
    \/ /\ g \in DOMAIN pending_gaps \ DOMAIN accepted_gaps
       /\ LET losses == accepted_loss_sequences \cup pending_gaps[g]
          IN  \E d \in Cursors :
              /\ AdvancesTo(committed_through, losses, d)
              /\ committed_through' = d
              /\ accepted_loss_sequences' = losses \ ((committed_through + 1)..d)
              /\ PruneHint(committed_through, d)
       /\ pending_gaps' = Without(pending_gaps, {g})
       /\ accepted_gaps' = Put(accepted_gaps, g, pending_gaps[g])
       /\ UNCHANGED <<last_allocated, records, envelope_sequences>>
    \* already accepted, or UnknownGapId
    \/ /\ g \notin DOMAIN pending_gaps \ DOMAIN accepted_gaps
       /\ UNCHANGED uplinkVars

-----------------------------------------------------------------------------
(* observe_ack: c is the acknowledged cursor, M the missing hint. *)

\* Mutant: an older cursor is applied like any other.
StaleAckMutant(c) == FALSE
StaleAck(c) == c < committed_through

InvalidHint(c, M) == \E s \in M : s <= c \/ s > last_allocated

\* Mutant: a declared loss counts as resolved before the cloud accepts it.
CrossesUnresolvedMutant(c) ==
    \E s \in (committed_through + 1)..c :
        s \notin DOMAIN records \cup accepted_loss_sequences
                  \cup GapSequences(pending_gaps)

\* Some sequence the cursor would pass is neither retained nor accepted lost.
CrossesUnresolved(c) ==
    \E s \in (committed_through + 1)..c :
        s \notin DOMAIN records \cup accepted_loss_sequences

\* The errors of observe_ack, in the order the code meets them.
AckRefused(c, M) ==
    /\ ~StaleAck(c)
    /\ \/ c > last_allocated
       \/ InvalidHint(c, M)
       \/ CrossesUnresolved(c)

\* deleted_sequences: the records the acknowledgement releases.
AckDeletes(c) == DOMAIN records \cap ((committed_through + 1)..c)

ObserveAck(c, M, more) ==
    \/ /\ ~StaleAck(c)
       /\ ~AckRefused(c, M)
       /\ records' = Without(records, AckDeletes(c))
       /\ accepted_loss_sequences' =
              accepted_loss_sequences \ ((committed_through + 1)..c)
       /\ committed_through' = c
       /\ missing' = M
       /\ more_missing' = more
       /\ UNCHANGED <<last_allocated, envelope_sequences, pending_gaps,
                      accepted_gaps>>
    \/ /\ StaleAck(c) \/ AckRefused(c, M)
       /\ UNCHANGED uplinkVars

-----------------------------------------------------------------------------
(* rehydrate: rebuild the journal from a cursor and the rows on disk.  Gaps *)
(* and hints are not restored, and holes between the rows are not looked    *)
(* for.                                                                     *)

InvalidRestoredJournal(c, l, rows) ==
    \/ l < c
    \/ \E s \in DOMAIN rows : s <= c \/ s > l
    \/ \E s, t \in DOMAIN rows :
          s # t /\ rows[s].envelope_id = rows[t].envelope_id

Rehydrate(c, l, rows) ==
    /\ ~InvalidRestoredJournal(c, l, rows)
    /\ last_allocated' = l
    /\ committed_through' = c
    /\ records' = rows
    /\ envelope_sequences' =
           [id \in {rows[s].envelope_id : s \in DOMAIN rows} |->
               CHOOSE s \in DOMAIN rows : rows[s].envelope_id = id]
    /\ missing' = {} /\ more_missing' = FALSE
    /\ pending_gaps' = EmptyMap
    /\ accepted_gaps' = EmptyMap
    /\ accepted_loss_sequences' = {}

-----------------------------------------------------------------------------
UplinkNext ==
    \/ \E id \in EnvelopeIds, r \in RetentionClass : UplinkAppend(id, r)
    \/ \E g \in GapIds, S \in SUBSET Seqs : DeclareLoss(g, S)
    \/ \E g \in GapIds : AcceptGap(g)
    \/ \E c \in Cursors, M \in SUBSET Seqs, more \in BOOLEAN :
          ObserveAck(c, M, more)

UplinkSpec == UplinkInit /\ [][UplinkNext]_uplinkVars

-----------------------------------------------------------------------------
(* Properties *)

\* The types of the fields of struct UplinkState.
UplinkTypeOK ==
    /\ last_allocated \in Cursors
    /\ committed_through \in Cursors
    /\ IsMap(records, Seqs, UplinkRecord)
    /\ IsMap(envelope_sequences, EnvelopeIds, Seqs)
    /\ missing \in SUBSET Seqs
    /\ more_missing \in BOOLEAN
    /\ IsMap(pending_gaps, GapIds, SUBSET Seqs)
    /\ IsMap(accepted_gaps, GapIds, SUBSET Seqs)
    /\ accepted_loss_sequences \in SUBSET Seqs

\* The sequences the cursor still has to pass.
Unsettled == (committed_through + 1)..last_allocated

\* No sequence is forgotten: what lies above the cursor is exactly the
\* retained records, the declared losses and the accepted losses.  An
\* acknowledgement, an eviction or a gap acknowledgement that dropped one
\* would leave a hole no later acknowledgement can cross
\* (AckCrossesUnresolvedSequence, observe_ack).
NothingForgotten ==
    /\ committed_through <= last_allocated
    /\ DOMAIN records \cup GapSequences(pending_gaps)
           \cup accepted_loss_sequences = Unsettled

\* No sequence has two fates: a record is never both retained and lost, no
\* two gaps name the same sequence, and a pending loss is not accepted yet.
OneFate ==
    /\ DOMAIN records \cap GapSequences(pending_gaps) = {}
    /\ DOMAIN records \cap accepted_loss_sequences = {}
    /\ GapSequences(pending_gaps) \cap accepted_loss_sequences = {}
    /\ \A g, h \in DOMAIN pending_gaps :
          g # h => pending_gaps[g] \cap pending_gaps[h] = {}

\* The index by envelope id and the records agree: the sequence the index
\* answers for a duplicate (DuplicateEnvelopeId, from which handle_command of
\* edge-bin takes the sequence of a result it re-sends) is that envelope's.
IndexAgrees ==
    /\ \A s \in DOMAIN records :
          /\ records[s].envelope_id \in DOMAIN envelope_sequences
          /\ envelope_sequences[records[s].envelope_id] = s
    /\ \A id \in DOMAIN envelope_sequences :
          envelope_sequences[id] <= last_allocated
    /\ \A id, jd \in DOMAIN envelope_sequences :
          envelope_sequences[id] = envelope_sequences[jd] => id = jd

\* The recovery hint only names sequences that are still unsettled, whatever
\* order acknowledgements and gap acknowledgements come in: the replay that
\* follows it never goes below the cursor.
HintsUnsettled == missing \subseteq Unsettled

\* The cursor moves only over records an acknowledgement confirmed and
\* accepted losses (the comment on struct UplinkState): a record leaves the
\* journal because the cursor passed it or, if it is evictable, because a
\* gap now stands for it; a declared loss leaves only by being accepted.
RecordsLeaveAccountedFor ==
    [][/\ \A s \in DOMAIN records \ DOMAIN records' :
             \/ s <= committed_through'
             \/ /\ records[s].retention = "Evictable"
                /\ s \in GapSequences(pending_gaps')
       /\ \A s \in GapSequences(pending_gaps) :
             \/ s \in GapSequences(pending_gaps')
             \/ s \in GapSequences(accepted_gaps')
      ]_uplinkVars

\* Sequences are given once and the cursor never moves back.
SequencesStable ==
    [][/\ committed_through' >= committed_through
       /\ last_allocated' >= last_allocated
       /\ \A id \in DOMAIN envelope_sequences :
             /\ id \in DOMAIN envelope_sequences'
             /\ envelope_sequences'[id] = envelope_sequences[id]
      ]_uplinkVars

\* All of these together, which is inductive: each of append, declare_loss,
\* observe_ack and accept_gap keeps one of them because the others hold.
UplinkInv ==
    /\ UplinkTypeOK
    /\ NothingForgotten
    /\ OneFate
    /\ IndexAgrees
    /\ HintsUnsettled
=============================================================================
