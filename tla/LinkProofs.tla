----------------------------- MODULE LinkProofs -----------------------------
(***************************************************************************)
(* UplinkLink for every window, every idle timeout and every number of     *)
(* records: what the session counts as sent and as stored is so, and the   *)
(* session does nothing to the journal that the journal's own operations   *)
(* do not do.                                                              *)
(*                                                                         *)
(* LinkInv is not inductive as it stands.  That the cursor only passes     *)
(* what the cloud has stored needs the same of the acknowledgements that   *)
(* are still on the wire; that the window is respected needs that the      *)
(* retained records have no holes, which holds because nothing declares a  *)
(* loss here; and that no retained record is skipped needs that the replay *)
(* cursor is never above the last sequence given out.                      *)
(***************************************************************************)
EXTENDS UplinkLink, UplinkStateProofs, FiniteSetTheorems, WellFoundedInduction

-----------------------------------------------------------------------------
(* Sets of numbers *)

LEMMA LeastNumber ==
    ASSUME NEW S \in SUBSET Nat, S # {}
    PROVE  \E x \in S : \A y \in S : x <= y
<1>1. PICK x \in S : \A y \in S : ~(<<y, x>> \in OpToRel(<, Nat))
    BY WFMin, NatLessThanWellFounded
<1>2. \A y \in S : ~(y < x)
    BY <1>1 DEF OpToRel
<1> QED
    BY <1>2

\* The least of a hint (RangeInclusive::start of its first range).
LEMMA MinIs ==
    ASSUME NEW M \in SUBSET Nat, M # {}
    PROVE  Min(M) \in M /\ \A y \in M : Min(M) <= y
<1>1. \E x \in M : \A y \in M : x <= y
    BY LeastNumber
<1> QED
    BY <1>1 DEF Min

LEMMA MaxOfInterval ==
    ASSUME NEW a \in Int, NEW b \in Int, a <= b
    PROVE  Max(a..b) = b
<1>1. b \in a..b /\ \A y \in a..b : b >= y
    OBVIOUS
<1>2. \A x \in a..b : (\A y \in a..b : x >= y) => x = b
    OBVIOUS
<1> QED
    BY <1>1, <1>2 DEF Max

\* An interval has an ascending sequence, so Ascending is one of its sequences.
LEMMA AscendingOfInterval ==
    ASSUME NEW a \in Int, NEW b \in Int
    PROVE  Ascending(a..b) \in Seq(a..b)
<1> DEFINE S == a..b
           n == IF a > b THEN 0 ELSE b - a + 1
           w == [i \in 1..n |-> a + i - 1]
<1>1. Cardinality(S) = n /\ n \in Nat
    BY FS_Interval
<1>2. SetToSeqs(S) = {f \in [1..n -> S] : \A i, j \in 1..n : i # j => f[i] # f[j]}
    BY <1>1 DEF SetToSeqs
<1>3. \A i \in 1..n : a + i - 1 \in S
    OBVIOUS
<1>4. w \in [1..n -> S]
    BY <1>3
<1> HIDE DEF n, S
<1>5. \A i, j \in 1..n : i # j => w[i] # w[j]
    BY <1>1
<1>6. \A i, j \in DOMAIN w : i < j => w[i] < w[j]
    BY <1>1
<1> HIDE DEF w
<1>7. w \in SetToSeqs(S) /\ \A i, j \in DOMAIN w : i < j => w[i] < w[j]
    BY <1>2, <1>4, <1>5, <1>6
<1>8. Ascending(S) \in SetToSeqs(S)
    BY <1>7 DEF Ascending
<1>9. Ascending(S) \in [1..n -> S]
    BY <1>2, <1>8
<1>10. Ascending(S) \in Seq(S)
    BY <1>1, <1>9
<1> QED
    BY <1>10 DEF S

-----------------------------------------------------------------------------
(* Replay *)

LEMMA LinkFacts == ReplayWindow \in Nat /\ ReplayWindow > 0 /\ IdleTicks \in Nat /\ IdleTicks > 0
                   /\ MaxSeq \in Nat /\ CommandIds \subseteq EnvelopeIds
BY LinkAssumption, MaxSeqAssumption

\* Up to where a replay goes when the retained records have no holes.
ReplayEnd(c, l) == IF l < c + ReplayWindow THEN l ELSE c + ReplayWindow

LEMMA ReplaySetIs ==
    ASSUME NEW c \in Cursors, NEW l \in Cursors, NEW rt \in Cursors
    PROVE  ReplaySet(rt, c, (c + 1)..l) = (ReplayStart(rt, c) + 1)..ReplayEnd(c, l)
<1> DEFINE from == ReplayStart(rt, c)
           retained == (c + 1)..l
<1>1. from \in Nat /\ from >= c /\ c \in Nat /\ l \in Nat
    BY MaxSeqAssumption DEF ReplayStart, Cursors
<1> HIDE DEF from
<1>2. ASSUME NEW s \in retained, s > from
      PROVE  Cardinality({t \in retained : from < t /\ t <= s}) = s - from
    <2>1. {t \in retained : from < t /\ t <= s} = (from + 1)..s
        BY <1>1, <1>2
    <2>2. Cardinality((from + 1)..s) = s - from
        <3>1. from + 1 \in Int /\ s \in Int /\ ~(from + 1 > s)
            BY <1>1, <1>2
        <3> QED
            BY <1>1, <3>1, FS_Interval
    <2> QED
        BY <2>1, <2>2
<1> DEFINE R == {s \in retained : s > from /\ s - from <= ReplayWindow - (from - c)}
<1>3. ReplaySet(rt, c, retained) = R
    BY <1>2 DEF ReplaySet, from
<1>4. R = (from + 1)..ReplayEnd(c, l)
    BY <1>1, LinkFacts DEF ReplayEnd
<1> QED
    BY <1>3, <1>4 DEF from

\* Sending keeps the frames on the wire frames.
LEMMA SendKeeps ==
    ASSUME to_cloud \in Seq(Frames), NEW frames \in Seq(Frames), Send(frames)
    PROVE  to_cloud' \in Seq(Frames)
<1>1. to_cloud \o frames \in Seq(Frames)
    OBVIOUS
<1> QED
    BY <1>1 DEF Send

LEMMA FrameFacts == Resume \in Frames /\ Ping \in Frames /\ \A s \in Seqs : Record(s) \in Frames
BY DEF Frames

\* A replay over retained records without holes, from a cursor below which all of
\* them were sent: nothing is skipped, the window is kept.
LEMMA ReplayKeeps ==
    ASSUME to_cloud \in Seq(Frames), sent \subseteq Seqs, NEW frames \in Seq(Frames),
           NEW c \in Cursors, NEW l \in Cursors, NEW rt \in Cursors, c <= l, rt <= l,
           rt <= c + ReplayWindow,
           ((c + 1)..l) \cap (1..rt) \subseteq sent,
           Replay(rt, c, (c + 1)..l, frames)
    PROVE  /\ to_cloud' \in Seq(Frames)
           /\ sent' \subseteq Seqs
           /\ replay_through' \in Cursors /\ replay_through' <= l
           /\ replay_through' <= c + ReplayWindow
           /\ ((c + 1)..l) \cap (1..replay_through') \subseteq sent'
<1> DEFINE from == ReplayStart(rt, c)
           end == ReplayEnd(c, l)
           S == ReplaySet(rt, c, (c + 1)..l)
           batch == Ascending(S)
           fs == [i \in 1..Len(batch) |-> Record(batch[i])]
<1>1. /\ from \in Nat /\ from = (IF rt < c THEN c ELSE rt) /\ end \in Nat /\ c \in Nat /\ l \in Nat /\ l <= MaxSeq
      /\ rt \in Nat /\ end <= l /\ end <= c + ReplayWindow
    BY LinkFacts DEF ReplayStart, ReplayEnd, Cursors
<1>2. S = (from + 1)..end
    BY ReplaySetIs
<1>3. /\ Send(frames \o fs)
      /\ replay_through' = IF S = {} THEN from ELSE Max(S)
      /\ sent' = sent \cup S
    BY DEF Replay
<1> HIDE DEF from, end, S
<1>4. batch \in Seq(S) /\ S \subseteq Seqs
    <2>1. from + 1 \in Int /\ end \in Int
        BY <1>1
    <2>2. batch \in Seq(S)
        BY <1>2, <2>1, AscendingOfInterval
    <2>3. (from + 1)..end \subseteq 1..MaxSeq
        BY <1>1, LinkFacts
    <2> QED
        BY <1>2, <2>2, <2>3 DEF Seqs
<1> HIDE DEF batch
<1>5. fs \in Seq(Frames)
    <2>1. \A i \in 1..Len(batch) : batch[i] \in Seqs
        BY <1>4
    <2>2. Len(batch) \in Nat
        BY <1>4
    <2>3. \A i \in 1..Len(batch) : Record(batch[i]) \in Frames
        BY <2>1, FrameFacts
    <2> QED
        BY <2>2, <2>3
<1> HIDE DEF fs
<1>6. to_cloud' \in Seq(Frames)
    <2>1. frames \o fs \in Seq(Frames)
        BY <1>5
    <2> QED
        BY <1>3, <2>1, SendKeeps
<1>7. replay_through' = IF from < end THEN end ELSE from
    <2>1. CASE from < end
        <3>1. from + 1 <= end /\ from + 1 \in Int /\ end \in Int
            BY <1>1, <2>1
        <3>2. Max(S) = end /\ S # {}
            BY <1>2, <3>1, MaxOfInterval
        <3> QED
            BY <1>3, <2>1, <3>2
    <2>2. CASE ~(from < end)
        <3>1. S = {}
            BY <1>1, <1>2, <2>2
        <3> QED
            BY <1>3, <2>2, <3>1
    <2> QED
        BY <2>1, <2>2
<1>8. replay_through' \in Cursors /\ replay_through' <= l /\ replay_through' <= c + ReplayWindow
    BY <1>1, <1>7, LinkFacts DEF Cursors
<1>9. ((c + 1)..l) \cap (1..replay_through') \subseteq sent'
    <2>1. ASSUME NEW s \in (c + 1)..l, s \in 1..replay_through' PROVE s \in sent \cup S
        <3>1. CASE s <= from
            BY <1>1, <2>1, <3>1
        <3>2. CASE s > from
            BY <1>1, <1>2, <1>7, <2>1, <3>2
        <3> QED
            BY <1>1, <2>1, <3>1, <3>2
    <2> QED
        BY <1>3, <2>1
<1> QED
    BY <1>3, <1>4, <1>6, <1>8, <1>9

-----------------------------------------------------------------------------
(* The cloud's cursor (external) *)

LEMMA CloudPrefixIs ==
    ASSUME NEW stored \in SUBSET Seqs
    PROVE  CloudPrefix(stored) \in Cursors /\ 1..CloudPrefix(stored) \subseteq stored
<1> DEFINE T == {n \in Nat : n + 1 \notin stored}
<1>1. MaxSeq \in T
    BY LinkFacts DEF Seqs
<1>2. PICK c \in T : \A n \in T : c <= n
    BY <1>1, LeastNumber
<1>3. c \in Nat /\ c <= MaxSeq /\ (c + 1) \notin stored
    BY <1>1, <1>2
<1>4. ASSUME NEW s \in 1..c PROVE s \in stored
    <2>1. s - 1 \in Nat /\ ~(c <= s - 1) /\ (s - 1) + 1 = s
        BY <1>3
    <2>2. s - 1 \notin T
        BY <1>2, <2>1
    <2> QED
        BY <2>1, <2>2
<1>5. c \in Cursors /\ 1..c \subseteq stored /\ (c + 1) \notin stored
    BY <1>3, <1>4, LinkFacts DEF Cursors
<1> QED
    BY <1>5 DEF CloudPrefix

\* What the cloud acknowledges, it has stored.
LEMMA CloudAckTrue ==
    ASSUME NEW stored \in SUBSET Seqs, NEW kind \in {"ResumeAck", "UplinkAck"}
    PROVE  CloudAck(kind, stored) \in AckFrames /\ 1..CloudAck(kind, stored).through \subseteq stored
<1>1. CloudPrefix(stored) \in Cursors /\ 1..CloudPrefix(stored) \subseteq stored
    BY CloudPrefixIs
<1>2. CloudHoles(stored) \in SUBSET Seqs
    BY DEF CloudHoles
<1> QED
    BY <1>1, <1>2 DEF CloudAck, AckFrames

-----------------------------------------------------------------------------
(* The inductive invariant *)

EdgeFrames == {Pong, ProtocolError} \cup {CommandDeliver(id) : id \in CommandIds} \cup AckFrames

\* The type of the session, with the channels as sequences.
SessionTypeOK ==
    /\ phase \in Phases
    /\ replay_through \in Cursors /\ gap_resent_from \in Cursors
    /\ idle \in 0..IdleTicks
    /\ to_cloud \in Seq(Frames) /\ to_edge \in Seq(EdgeFrames)
    /\ peer \in {"alive", "closed", "gone"}
    /\ sent \subseteq Seqs /\ cloud_stored \subseteq Seqs

\* Nothing is ever declared lost here, so what is retained has no holes.
NoLosses == pending_gaps = EmptyMap /\ accepted_loss_sequences = {}

\* What an acknowledgement on the wire says, the cloud has stored.
AcksTrue == \A i \in 1..Len(to_edge) : to_edge[i] \in AckFrames => 1..to_edge[i].through \subseteq cloud_stored

\* The replay cursor is not above the last sequence given out.
ReplayBehind == replay_through <= last_allocated

LinkIInv ==
    /\ UplinkInv /\ SessionTypeOK /\ NoLosses /\ AcksTrue /\ ReplayBehind
    /\ CommittedIsStored /\ SentOnThisConnection /\ WindowRespected

\* What is retained lies between the cursor and the last sequence, without holes.
Whole ==
    /\ DOMAIN records = (committed_through + 1)..last_allocated
    /\ committed_through \in Cursors /\ last_allocated \in Cursors
    /\ committed_through <= last_allocated

LEMMA RetainedIs == UplinkInv /\ NoLosses => Whole
<1>1. NoLosses => GapSequences(pending_gaps) = {}
    BY DEF NoLosses, GapSequences, EmptyMap
<1> QED
    BY <1>1 DEF UplinkInv, UplinkTypeOK, NothingForgotten, Unsettled, NoLosses, Whole

LEMMA EdgeFrameKinds ==
    ASSUME NEW f \in EdgeFrames
    PROVE  /\ f.kind \in {"ResumeAck", "UplinkAck"} <=> f \in AckFrames
           /\ f \in AckFrames => f.through \in Cursors /\ f.missing \in SUBSET Seqs
           /\ f.kind = "CommandDeliver" => f.id \in CommandIds
BY DEF EdgeFrames, AckFrames, Pong, ProtocolError, CommandDeliver

LEMMA IInvMeans == LinkIInv => LinkInv
<1> SUFFICES ASSUME LinkIInv PROVE LinkInv
    OBVIOUS
<1>1. UplinkInv /\ SessionTypeOK
    BY DEF LinkIInv
<1>2. \A i \in DOMAIN to_cloud : to_cloud[i] \in Frames
    BY <1>1 DEF SessionTypeOK
<1>3. \A i \in DOMAIN to_edge : to_edge[i] \in EdgeFrames
    BY <1>1 DEF SessionTypeOK
<1>4. LinkTypeOK
    <2>1. UplinkTypeOK
        BY <1>1 DEF UplinkInv
    <2> QED
        BY <1>1, <1>2, <1>3, <2>1 DEF SessionTypeOK, LinkTypeOK, EdgeFrames
<1> QED
    BY <1>4 DEF LinkIInv, LinkInv

LEMMA LinkInitInv == LinkInit => LinkIInv
<1> SUFFICES ASSUME LinkInit PROVE LinkIInv
    OBVIOUS
<1>1. UplinkInv
    BY InitInv DEF LinkInit
<1>2. /\ committed_through = 0 /\ last_allocated = 0 /\ NoLosses /\ records = EmptyMap
    BY DEF LinkInit, UplinkInit, NoLosses
<1>3. PICK k \in 0..CloudStart : cloud_stored = 1..k
    BY DEF LinkInit
<1>4. cloud_stored \subseteq Seqs
    BY <1>3, LinkAssumption, LinkFacts DEF Seqs, Cursors
<1>5. <<>> \in Seq(Frames) /\ <<>> \in Seq(EdgeFrames)
    OBVIOUS
<1>6. SessionTypeOK
    BY <1>4, <1>5, LinkFacts DEF LinkInit, SessionTypeOK, Phases, Cursors
<1>7. AcksTrue /\ ReplayBehind
    BY <1>2 DEF LinkInit, AcksTrue, ReplayBehind
<1>8. CommittedIsStored /\ SentOnThisConnection /\ WindowRespected
    BY <1>2 DEF CommittedIsStored, SentOnThisConnection, WindowRespected, Connected, LinkInit
<1> QED
    BY <1>1, <1>2, <1>6, <1>7, <1>8 DEF LinkIInv

-----------------------------------------------------------------------------
(* The channel to the edge *)

LEMMA EdgeShrinks ==
    ASSUME SessionTypeOK, AcksTrue, cloud_stored \subseteq cloud_stored',
           \/ to_edge' = <<>>
           \/ to_edge' = to_edge
           \/ to_edge # <<>> /\ to_edge' = Tail(to_edge)
    PROVE  to_edge' \in Seq(EdgeFrames) /\ AcksTrue'
<1>1. to_edge \in Seq(EdgeFrames)
    BY DEF SessionTypeOK
<1>2. CASE to_edge' = <<>>
    BY <1>2 DEF AcksTrue
<1>3. CASE to_edge' = to_edge
    BY <1>1, <1>3 DEF AcksTrue
<1>4. CASE to_edge # <<>> /\ to_edge' = Tail(to_edge)
    <2>1. /\ to_edge' \in Seq(EdgeFrames) /\ Len(to_edge') = Len(to_edge) - 1 /\ Len(to_edge) \in Nat
          /\ \A i \in 1..Len(to_edge') : to_edge'[i] = to_edge[i + 1]
        BY <1>1, <1>4
    <2>2. \A i \in 1..Len(to_edge') : i + 1 \in 1..Len(to_edge)
        BY <2>1
    <2> QED
        BY <2>1, <2>2 DEF AcksTrue
<1> QED
    BY <1>2, <1>3, <1>4

LEMMA EdgeGrows ==
    ASSUME SessionTypeOK, AcksTrue, cloud_stored \subseteq cloud_stored', NEW f \in EdgeFrames,
           f \in AckFrames => 1..f.through \subseteq cloud_stored', to_edge' = Append(to_edge, f)
    PROVE  to_edge' \in Seq(EdgeFrames) /\ AcksTrue'
<1>1. to_edge \in Seq(EdgeFrames)
    BY DEF SessionTypeOK
<1>2. /\ to_edge' \in Seq(EdgeFrames) /\ Len(to_edge') = Len(to_edge) + 1 /\ Len(to_edge) \in Nat
      /\ \A i \in 1..Len(to_edge) : to_edge'[i] = to_edge[i]
      /\ to_edge'[Len(to_edge) + 1] = f
    BY <1>1
<1>3. \A i \in 1..Len(to_edge') : i \in 1..Len(to_edge) \/ i = Len(to_edge) + 1
    BY <1>2
<1> QED
    BY <1>2, <1>3 DEF AcksTrue

\* A step that leaves the journal and the replay alone: what is left to show.
LEMMA JournalLeftAlone ==
    ASSUME LinkIInv, UNCHANGED uplinkVars, SessionTypeOK', AcksTrue',
           cloud_stored \subseteq cloud_stored', sent \subseteq sent',
           replay_through' = replay_through, Connected' => Connected
    PROVE  LinkIInv'
<1>1. UplinkInv'
    BY StutterInv DEF LinkIInv
<1>2. UNCHANGED <<committed_through, last_allocated, records, pending_gaps, accepted_loss_sequences>>
    BY DEF uplinkVars, gapVars
<1>3. NoLosses /\ ReplayBehind /\ CommittedIsStored /\ SentOnThisConnection /\ WindowRespected
    BY DEF LinkIInv
<1>4. NoLosses' /\ ReplayBehind' /\ CommittedIsStored'
    BY <1>2, <1>3 DEF NoLosses, ReplayBehind, CommittedIsStored
<1>5. SentOnThisConnection' /\ WindowRespected'
    BY <1>2, <1>3 DEF SentOnThisConnection, WindowRespected
<1> QED
    BY <1>1, <1>4, <1>5 DEF LinkIInv

\* An append, by another thread or for a command: the new sequence is above the
\* replay cursor.
LEMMA AppendKeeps ==
    ASSUME LinkIInv, NEW id \in EnvelopeIds, ~DuplicateEnvelopeId(id), ~SequenceExhausted,
           AppendRecord(id, "Protected"), SessionTypeOK', AcksTrue', sent \subseteq sent',
           UNCHANGED <<phase, replay_through, cloud_stored>>
    PROVE  LinkIInv'
<1>1. UplinkInv /\ NoLosses /\ SessionTypeOK /\ ReplayBehind /\ CommittedIsStored /\ SentOnThisConnection /\ WindowRespected
    BY DEF LinkIInv
<1>2. UplinkInv'
    <2>1. UplinkAppend(id, "Protected") /\ "Protected" \in RetentionClass
        BY DEF UplinkAppend, RetentionClass
    <2> QED
        BY <1>1, <2>1, AppendInv
<1>3. /\ last_allocated' = last_allocated + 1 /\ UNCHANGED <<committed_through, pending_gaps, accepted_loss_sequences>>
      /\ DOMAIN records' = DOMAIN records \cup {last_allocated + 1}
    BY DEF AppendRecord, NextSequence, Put, gapVars
<1>4. last_allocated \in Nat /\ replay_through \in Nat /\ replay_through <= last_allocated
    BY <1>1, RetainedIs, LinkFacts DEF SessionTypeOK, ReplayBehind, Cursors, Whole
<1>5. NoLosses' /\ ReplayBehind' /\ CommittedIsStored' /\ WindowRespected'
    BY <1>1, <1>3, <1>4 DEF NoLosses, ReplayBehind, CommittedIsStored, WindowRespected, Connected
<1>6. SentOnThisConnection'
    BY <1>1, <1>3, <1>4 DEF SentOnThisConnection, Connected
<1> QED
    BY <1>2, <1>5, <1>6 DEF LinkIInv

\* A replay of the retained records, after the journal has moved from a cursor to
\* another: what is left to show.
LEMMA ReplayStepKeeps ==
    ASSUME LinkIInv, Connected, UplinkInv', NoLosses', AcksTrue', CommittedIsStored',
           committed_through <= committed_through', last_allocated' = last_allocated,
           DOMAIN records' \subseteq DOMAIN records,
           NEW rt \in Cursors, rt <= replay_through, NEW frames \in Seq(Frames),
           Replay(rt, committed_through', DOMAIN records', frames),
           phase' \in Phases, gap_resent_from' \in Cursors, idle' \in 0..IdleTicks,
           to_edge' \in Seq(EdgeFrames), UNCHANGED <<peer, cloud_stored>>
    PROVE  LinkIInv'
<1>1. UplinkInv /\ NoLosses /\ SessionTypeOK /\ ReplayBehind /\ SentOnThisConnection /\ WindowRespected
    BY DEF LinkIInv
<1> DEFINE c == committed_through'
           l == last_allocated'
<1>2. DOMAIN records' = (c + 1)..l /\ c \in Cursors /\ l \in Cursors /\ c <= l
    <2>1. Whole'
        BY RetainedIs, PTL
    <2> QED
        BY <2>1 DEF Whole
<1>3. /\ committed_through \in Nat /\ c \in Nat /\ replay_through \in Nat /\ rt \in Nat /\ ReplayWindow \in Nat
      /\ l \in Nat
    BY <1>1, <1>2, RetainedIs, LinkFacts DEF SessionTypeOK, Cursors, Whole
<1>4. replay_through <= committed_through + ReplayWindow /\ replay_through <= l
    BY <1>1 DEF WindowRespected, ReplayBehind
<1>5. rt <= l /\ rt <= c + ReplayWindow
    <2>1. committed_through <= c
        OBVIOUS
    <2> HIDE DEF c, l
    <2> QED
        BY <1>3, <1>4, <2>1
<1>6. ((c + 1)..l) \cap (1..rt) \subseteq sent
    <2>1. 1..rt \subseteq 1..replay_through
        BY <1>3
    <2>2. DOMAIN records \cap (1..replay_through) \subseteq sent
        BY <1>1 DEF SentOnThisConnection
    <2> QED
        BY <1>2, <2>1, <2>2
<1>7. to_cloud \in Seq(Frames) /\ sent \subseteq Seqs
    BY <1>1 DEF SessionTypeOK
<1>8. Replay(rt, c, (c + 1)..l, frames)
    BY <1>2
<1> HIDE DEF c, l
<1>9. /\ to_cloud' \in Seq(Frames) /\ sent' \subseteq Seqs
      /\ replay_through' \in Cursors /\ replay_through' <= l
      /\ replay_through' <= c + ReplayWindow
      /\ ((c + 1)..l) \cap (1..replay_through') \subseteq sent'
    BY <1>2, <1>5, <1>6, <1>7, <1>8, ReplayKeeps
<1>10. SessionTypeOK'
    BY <1>1, <1>9 DEF SessionTypeOK
<1>11. ReplayBehind' /\ SentOnThisConnection' /\ WindowRespected'
    BY <1>2, <1>9 DEF ReplayBehind, SentOnThisConnection, WindowRespected, c, l
<1> QED
    BY <1>10, <1>11 DEF LinkIInv

-----------------------------------------------------------------------------
(* The steps *)

\* apply_ack on the acknowledgement at the head of the channel.
LEMMA AckKeeps ==
    ASSUME LinkIInv, Connected, to_edge # <<>>, Head1.kind \in {"ResumeAck", "UplinkAck"},
           ApplyAck, UNCHANGED <<peer, cloudVars>>
    PROVE  LinkIInv'
<1>1. /\ UplinkInv /\ NoLosses /\ SessionTypeOK /\ AcksTrue /\ ReplayBehind /\ CommittedIsStored
      /\ to_edge \in Seq(EdgeFrames) /\ Whole
    BY RetainedIs DEF LinkIInv, SessionTypeOK
<1>2. 1 \in 1..Len(to_edge) /\ Head1 \in EdgeFrames /\ Head1 = to_edge[1]
    BY <1>1 DEF Head1
<1> DEFINE t == Head1.through
           M == Head1.missing
<1>3. Head1 \in AckFrames /\ t \in Cursors /\ M \in SUBSET Seqs /\ 1..t \subseteq cloud_stored
    BY <1>1, <1>2, EdgeFrameKinds DEF AcksTrue
<1> HIDE DEF t, M
<1>4. GapHead(M) \in Cursors
    <2>1. M # {} => Min(M) \in M /\ M \subseteq Nat
        BY <1>3, LinkFacts, MinIs DEF Seqs
    <2>2. M # {} => Min(M) \in 1..MaxSeq
        BY <1>3, <2>1 DEF Seqs
    <2> QED
        BY <2>2, LinkFacts DEF GapHead, Cursors
<1>5. Rewound(M) \in Cursors /\ Rewound(M) <= replay_through
    <2>1. M # {} => Min(M) \in M /\ M \subseteq Nat
        BY <1>3, LinkFacts, MinIs DEF Seqs
    <2>2. replay_through \in 0..MaxSeq
        BY <1>1 DEF SessionTypeOK, Cursors
    <2>3. M # {} => Min(M) \in 1..MaxSeq
        BY <1>3, <2>1 DEF Seqs
    <2> QED
        BY <2>2, <2>3, LinkFacts DEF Rewound, Cursors
<1>6. UNCHANGED <<peer, cloud_stored>>
    BY DEF cloudVars
<1>7. CASE /\ ~AckRefused(t, M) /\ ObserveAck(t, M, FALSE)
           /\ gap_resent_from' = GapHead(M)
           /\ Replay(Rewound(M), committed_through', DOMAIN records', <<>>)
           /\ phase' = "Live" /\ idle' = 0 /\ to_edge' = Tail(to_edge)
    <2>1. UplinkInv'
        BY <1>1, <1>3, <1>7, ObserveAckInv
    <2>2. committed_through \in Nat /\ t \in Nat
        BY <1>1, <1>3, LinkFacts DEF Whole, Cursors
    <2>3. /\ NoLosses' /\ last_allocated' = last_allocated /\ DOMAIN records' \subseteq DOMAIN records
          /\ committed_through <= committed_through' /\ committed_through' \in {t, committed_through}
        BY <1>1, <1>7, <2>2 DEF ObserveAck, NoLosses, Without, StaleAck, uplinkVars, gapVars
    <2>4. CommittedIsStored'
        BY <1>1, <1>3, <1>6, <2>3 DEF CommittedIsStored
    <2>5. to_edge' \in Seq(EdgeFrames) /\ AcksTrue'
        BY <1>1, <1>6, <1>7, EdgeShrinks
    <2>6. phase' \in Phases /\ idle' \in 0..IdleTicks /\ <<>> \in Seq(Frames)
        BY <1>7, LinkFacts DEF Phases
    <2> QED
        BY <1>4, <1>5, <1>6, <1>7, <2>1, <2>3, <2>4, <2>5, <2>6, ReplayStepKeeps
<1>8. CASE /\ EndAttempt /\ gap_resent_from' = GapHead(M) /\ replay_through' = Rewound(M)
           /\ UNCHANGED <<uplinkVars, to_cloud, sent>>
    <2>1. phase' = "Backoff" /\ idle' = 0 /\ to_edge' = <<>>
        BY <1>8 DEF EndAttempt
    <2>2. to_edge' \in Seq(EdgeFrames) /\ AcksTrue'
        BY <1>1, <1>6, <2>1, EdgeShrinks
    <2>3. SessionTypeOK'
        BY <1>1, <1>4, <1>5, <1>6, <1>8, <2>1, <2>2, LinkFacts DEF SessionTypeOK, Phases
    <2>4. UplinkInv' /\ UNCHANGED <<committed_through, last_allocated, pending_gaps, accepted_loss_sequences>>
        BY <1>1, <1>8, StutterInv DEF uplinkVars, gapVars
    <2>5. NoLosses' /\ CommittedIsStored'
        BY <1>1, <1>6, <2>4 DEF NoLosses, CommittedIsStored
    <2>6. ReplayBehind'
        <3>1. /\ replay_through \in Nat /\ last_allocated \in Nat /\ Rewound(M) \in Nat
              /\ replay_through <= last_allocated
            BY <1>1, <1>5, LinkFacts DEF SessionTypeOK, Whole, Cursors, ReplayBehind
        <3> QED
            BY <1>5, <1>8, <2>4, <3>1 DEF ReplayBehind
    <2>7. SentOnThisConnection' /\ WindowRespected'
        BY <2>1 DEF SentOnThisConnection, WindowRespected, Connected
    <2> QED
        BY <2>2, <2>3, <2>4, <2>5, <2>6, <2>7 DEF LinkIInv
<1> QED
    BY <1>7, <1>8 DEF ApplyAck, AckThrough, t, M

\* An attempt that ends keeps everything but the session.
LEMMA EndKeeps ==
    ASSUME LinkIInv, EndAttempt, UNCHANGED <<uplinkVars, workerVars, to_cloud, peer, sent, cloudVars>>
    PROVE  LinkIInv'
<1>1. phase' = "Backoff" /\ idle' = 0 /\ to_edge' = <<>>
    BY DEF EndAttempt
<1>2. SessionTypeOK /\ AcksTrue /\ UNCHANGED <<replay_through, gap_resent_from, cloud_stored>>
    BY DEF LinkIInv, workerVars, cloudVars
<1>3. to_edge' \in Seq(EdgeFrames) /\ AcksTrue'
    BY <1>1, <1>2, EdgeShrinks
<1>4. SessionTypeOK'
    BY <1>1, <1>2, <1>3, LinkFacts DEF SessionTypeOK, Phases
<1>5. ~Connected'
    BY <1>1 DEF Connected
<1> QED
    BY <1>2, <1>3, <1>4, <1>5, JournalLeftAlone

\* What the edge's thread does.
LEMMA EdgeKeeps ==
    ASSUME LinkIInv, Connect \/ EdgeRecv \/ Poll
    PROVE  LinkIInv'
<1>1. /\ UplinkInv /\ NoLosses /\ SessionTypeOK /\ AcksTrue /\ ReplayBehind /\ CommittedIsStored
      /\ to_edge \in Seq(EdgeFrames) /\ to_cloud \in Seq(Frames) /\ Whole
    BY RetainedIs DEF LinkIInv, SessionTypeOK
<1>2. CASE Connect
    <2>1. /\ phase' = "Resuming" /\ replay_through' = 0 /\ gap_resent_from' = 0 /\ idle' = 0
          /\ to_cloud' = <<Resume>> /\ to_edge' = <<>> /\ peer' = "alive" /\ sent' = {}
          /\ UNCHANGED <<uplinkVars, cloud_stored>>
        BY <1>2 DEF Connect, FreshReplay, cloudVars
    <2>2. to_edge' \in Seq(EdgeFrames) /\ AcksTrue'
        BY <1>1, <2>1, EdgeShrinks
    <2>3. to_cloud' \in Seq(Frames)
        BY <2>1, FrameFacts
    <2>4. SessionTypeOK'
        BY <1>1, <2>1, <2>2, <2>3, LinkFacts DEF SessionTypeOK, Phases, Cursors
    <2>5. UplinkInv' /\ UNCHANGED <<committed_through, last_allocated, records, pending_gaps, accepted_loss_sequences>>
        BY <1>1, <2>1, StutterInv DEF uplinkVars, gapVars
    <2>6. NoLosses' /\ CommittedIsStored'
        BY <1>1, <2>1, <2>5 DEF NoLosses, CommittedIsStored
    <2>7. committed_through \in Nat /\ last_allocated \in Nat
        BY <1>1, LinkFacts DEF Whole, Cursors
    <2>8. ReplayBehind' /\ WindowRespected'
        BY <2>1, <2>5, <2>7, LinkFacts DEF ReplayBehind, WindowRespected
    <2>9. SentOnThisConnection'
        BY <2>1 DEF SentOnThisConnection
    <2> QED
        BY <2>2, <2>4, <2>5, <2>6, <2>8, <2>9 DEF LinkIInv
<1>3. CASE RecvResumeAck \/ RecvUplinkAck
    BY <1>3, AckKeeps DEF RecvResumeAck, RecvUplinkAck, Receive
<1>4. CASE RecvPong
    <2>1. /\ to_edge # <<>> /\ to_edge' = Tail(to_edge) /\ idle' = 0
          /\ UNCHANGED <<uplinkVars, phase, workerVars, to_cloud, peer, sent, cloudVars>>
        BY <1>4 DEF RecvPong, Receive
    <2>2. UNCHANGED <<replay_through, gap_resent_from, cloud_stored>>
        BY <2>1 DEF workerVars, cloudVars
    <2>3. to_edge' \in Seq(EdgeFrames) /\ AcksTrue'
        BY <1>1, <2>1, <2>2, EdgeShrinks
    <2>4. SessionTypeOK'
        BY <1>1, <2>1, <2>2, <2>3, LinkFacts DEF SessionTypeOK
    <2>5. Connected' => Connected
        BY <2>1 DEF Connected
    <2> QED
        BY <2>1, <2>2, <2>3, <2>4, <2>5, JournalLeftAlone
<1>5. CASE RecvProtocolError
    BY <1>5, EndKeeps DEF RecvProtocolError
<1>6. CASE RecvClosed
    BY <1>6, EndKeeps DEF RecvClosed
<1>7. CASE RecvCommand
    <2> DEFINE id == Head1.id
    <2>1. /\ Connected /\ to_edge # <<>> /\ Head1.kind = "CommandDeliver" /\ to_edge' = Tail(to_edge)
          /\ UNCHANGED <<phase, workerVars, idle, peer, cloudVars>>
        BY <1>7 DEF RecvCommand, Receive
    <2>2. UNCHANGED <<replay_through, gap_resent_from, cloud_stored>>
        BY <2>1 DEF workerVars, cloudVars
    <2>3. to_edge' \in Seq(EdgeFrames) /\ AcksTrue'
        BY <1>1, <2>1, <2>2, EdgeShrinks
    <2>4. id \in EnvelopeIds
        <3>1. Head1 \in EdgeFrames
            BY <1>1, <2>1 DEF Head1
        <3> QED
            BY <2>1, <3>1, EdgeFrameKinds, LinkFacts
    <2>5. ASSUME NEW s \in Seqs, Send(<<Record(s)>>), sent' = sent \cup {s} PROVE SessionTypeOK'
        <3>1. <<Record(s)>> \in Seq(Frames)
            BY FrameFacts
        <3>2. to_cloud' \in Seq(Frames)
            BY <1>1, <2>5, <3>1, SendKeeps
        <3> QED
            BY <1>1, <2>1, <2>2, <2>3, <2>5, <3>2 DEF SessionTypeOK
    <2>6. CASE ~DuplicateEnvelopeId(id) /\ ~SequenceExhausted /\ AppendRecord(id, "Protected")
               /\ Send(<<Record(NextSequence)>>) /\ sent' = sent \cup {NextSequence}
        <3>1. NextSequence \in Seqs
            BY <1>1, <2>6, LinkFacts DEF SequenceExhausted, NextSequence, Seqs, Whole, Cursors
        <3>2. SessionTypeOK'
            BY <2>5, <2>6, <3>1
        <3> HIDE DEF id
        <3> QED
            BY <2>1, <2>2, <2>3, <2>4, <2>6, <3>2, AppendKeeps
    <2>7. CASE DuplicateEnvelopeId(id) /\ Send(<<Record(envelope_sequences[id])>>)
               /\ sent' = sent \cup {envelope_sequences[id]} /\ UNCHANGED uplinkVars
        <3>1. envelope_sequences[id] \in Seqs
            <4>1. IsMap(envelope_sequences, EnvelopeIds, Seqs)
                BY <1>1 DEF UplinkInv, UplinkTypeOK
            <4> QED
                BY <2>7, <4>1 DEF IsMap, DuplicateEnvelopeId
        <3>2. SessionTypeOK'
            BY <2>5, <2>7, <3>1
        <3>3. Connected' => Connected
            BY <2>1 DEF Connected
        <3> QED
            BY <2>2, <2>3, <2>7, <3>2, <3>3, JournalLeftAlone
    <2>8. CASE UNCHANGED <<uplinkVars, to_cloud, sent>>
        <3>1. SessionTypeOK'
            BY <1>1, <2>1, <2>2, <2>3, <2>8 DEF SessionTypeOK
        <3>2. Connected' => Connected
            BY <2>1 DEF Connected
        <3> QED
            BY <2>2, <2>3, <2>8, <3>1, <3>2, JournalLeftAlone
    <2> QED
        BY <1>7, <2>6, <2>7, <2>8 DEF RecvCommand
<1>8. CASE Poll
    <2> DEFINE frames == IF phase = "Live" /\ ~IdleExpired THEN <<Ping>> ELSE <<>>
    <2>1. /\ Connected /\ UNCHANGED <<uplinkVars, gap_resent_from, peer, cloudVars>>
          /\ Replay(replay_through, committed_through, DOMAIN records, frames)
          /\ \/ EndAttempt
             \/ ~IdleExpired /\ idle' = IdleAfterPing /\ UNCHANGED <<phase, to_edge>>
        BY <1>8 DEF Poll
    <2>2. frames \in Seq(Frames)
        BY FrameFacts
    <2> HIDE DEF frames
    <2>3. /\ UNCHANGED <<committed_through, last_allocated, records, pending_gaps, accepted_loss_sequences, cloud_stored>>
          /\ UplinkInv'
        BY <1>1, <2>1, StutterInv DEF uplinkVars, gapVars, cloudVars
    <2>4. NoLosses' /\ CommittedIsStored'
        BY <1>1, <2>3 DEF NoLosses, CommittedIsStored
    <2>5. /\ phase' \in Phases /\ idle' \in 0..IdleTicks
          /\ to_edge' \in Seq(EdgeFrames) /\ AcksTrue'
        <3>1. CASE EndAttempt
            <4>1. phase' = "Backoff" /\ idle' = 0 /\ to_edge' = <<>>
                BY <3>1 DEF EndAttempt
            <4> QED
                BY <1>1, <2>3, <4>1, LinkFacts, EdgeShrinks DEF Phases
        <3>2. CASE ~IdleExpired /\ idle' = IdleAfterPing /\ UNCHANGED <<phase, to_edge>>
            <4>1. phase \in Phases /\ idle \in 0..IdleTicks
                BY <1>1 DEF SessionTypeOK
            <4>2. idle' \in 0..IdleTicks
                BY <3>2, <4>1, LinkFacts DEF IdleExpired, IdleAfterPing
            <4> QED
                BY <1>1, <2>3, <3>2, <4>1, <4>2, EdgeShrinks
        <3> QED
            BY <2>1, <3>1, <3>2
    <2>6. replay_through \in Cursors /\ replay_through <= replay_through /\ gap_resent_from' \in Cursors
        <3>1. replay_through \in Cursors /\ gap_resent_from \in Cursors
            BY <1>1 DEF SessionTypeOK
        <3> QED
            BY <2>1, <3>1, LinkFacts DEF Cursors
    <2>7. Replay(replay_through, committed_through', DOMAIN records', frames)
        BY <2>1, <2>3
    <2>8. committed_through <= committed_through'
        BY <1>1, <2>3, LinkFacts DEF Whole, Cursors
    <2> QED
        BY <2>1, <2>2, <2>3, <2>4, <2>5, <2>6, <2>7, <2>8, ReplayStepKeeps
<1> QED
    BY <1>2, <1>3, <1>4, <1>5, <1>6, <1>7, <1>8 DEF EdgeRecv

\* What the cloud and the network do.
LEMMA CloudKeeps ==
    ASSUME LinkIInv,
           \/ CloudRecv \/ (\E id \in CommandIds : CloudCommand(id))
           \/ CloudProtocolError \/ PeerCloses \/ PeerVanishes
    PROVE  LinkIInv'
<1>1. /\ SessionTypeOK /\ AcksTrue /\ to_edge \in Seq(EdgeFrames) /\ to_cloud \in Seq(Frames)
      /\ cloud_stored \in SUBSET Seqs
    BY DEF LinkIInv, SessionTypeOK
<1>2. CASE CloudRecv
    <2>1. /\ to_cloud' = Tail(to_cloud) /\ to_cloud # <<>>
          /\ UNCHANGED <<uplinkVars, phase, workerVars, idle, peer, sent>>
        BY <1>2 DEF CloudRecv, CloudResume, CloudStore, CloudDrop, CloudPong, CloudHas
    <2>2. UNCHANGED <<replay_through, gap_resent_from>> /\ (Connected' => Connected)
        BY <2>1 DEF workerVars, Connected
    <2>3. to_cloud' \in Seq(Frames)
        BY <1>1, <2>1
    <2>4. ASSUME cloud_stored \subseteq cloud_stored', cloud_stored' \subseteq Seqs,
                 to_edge' \in Seq(EdgeFrames), AcksTrue'
          PROVE  LinkIInv'
        <3>1. SessionTypeOK'
            BY <1>1, <2>1, <2>2, <2>3, <2>4 DEF SessionTypeOK
        <3> QED
            BY <2>1, <2>2, <2>4, <3>1, JournalLeftAlone
    <2>5. ASSUME NEW f \in EdgeFrames, f \in AckFrames => 1..f.through \subseteq cloud_stored',
                 Answer(f), cloud_stored \subseteq cloud_stored'
          PROVE  to_edge' \in Seq(EdgeFrames) /\ AcksTrue'
        <3>1. CASE Connected
            BY <1>1, <2>5, <3>1, EdgeGrows DEF Answer
        <3>2. CASE ~Connected
            BY <1>1, <2>5, <3>2, EdgeShrinks DEF Answer
        <3> QED
            BY <3>1, <3>2
    <2>6. CASE CloudResume
        <3>1. UNCHANGED cloud_stored /\ Answer(CloudAck("ResumeAck", cloud_stored))
            BY <2>6 DEF CloudResume, cloudVars
        <3>2. /\ CloudAck("ResumeAck", cloud_stored) \in AckFrames
              /\ 1..CloudAck("ResumeAck", cloud_stored).through \subseteq cloud_stored
            BY <1>1, CloudAckTrue
        <3>3. CloudAck("ResumeAck", cloud_stored) \in EdgeFrames
            BY <3>2 DEF EdgeFrames
        <3> QED
            BY <1>1, <2>4, <2>5, <3>1, <3>2, <3>3
    <2>7. CASE CloudStore
        <3>1. /\ to_cloud[1].kind = "Record" /\ cloud_stored' = cloud_stored \cup {to_cloud[1].seq}
              /\ Answer(CloudAck("UplinkAck", cloud_stored'))
            BY <2>7 DEF CloudStore, CloudHas
        <3>2. to_cloud[1] \in Frames
            BY <1>1, <2>1
        <3>3. to_cloud[1].seq \in Seqs
            BY <3>1, <3>2 DEF Frames, Record, Resume, Ping
        <3>4. cloud_stored' \in SUBSET Seqs /\ cloud_stored \subseteq cloud_stored'
            BY <1>1, <3>1, <3>3
        <3>5. /\ CloudAck("UplinkAck", cloud_stored') \in AckFrames
              /\ 1..CloudAck("UplinkAck", cloud_stored').through \subseteq cloud_stored'
            BY <3>4, CloudAckTrue
        <3>6. CloudAck("UplinkAck", cloud_stored') \in EdgeFrames
            BY <3>5 DEF EdgeFrames
        <3> QED
            BY <2>4, <2>5, <3>1, <3>4, <3>5, <3>6
    <2>8. CASE CloudDrop
        <3>1. UNCHANGED <<to_edge, cloud_stored>>
            BY <2>8 DEF CloudDrop
        <3>2. to_edge' \in Seq(EdgeFrames) /\ AcksTrue'
            BY <1>1, <3>1, EdgeShrinks
        <3> QED
            BY <1>1, <2>4, <3>1, <3>2
    <2>9. CASE CloudPong
        <3>1. UNCHANGED cloud_stored /\ Answer(Pong)
            BY <2>9 DEF CloudPong, cloudVars
        <3>2. Pong \in EdgeFrames /\ Pong \notin AckFrames
            BY DEF EdgeFrames, Pong, AckFrames
        <3> QED
            BY <1>1, <2>4, <2>5, <3>1, <3>2
    <2> QED
        BY <1>2, <2>6, <2>7, <2>8, <2>9 DEF CloudRecv
<1>3. ASSUME UNCHANGED <<uplinkVars, phase, workerVars, idle, to_cloud, sent, cloudVars>>,
             peer' \in {"alive", "closed", "gone"}, to_edge' \in Seq(EdgeFrames), AcksTrue'
      PROVE  LinkIInv'
    <2>1. UNCHANGED <<replay_through, gap_resent_from, cloud_stored>> /\ (Connected' => Connected)
        BY <1>3 DEF workerVars, cloudVars, Connected
    <2>2. SessionTypeOK'
        BY <1>1, <1>3, <2>1 DEF SessionTypeOK
    <2> QED
        BY <1>3, <2>1, <2>2, JournalLeftAlone
<1>4. ASSUME NEW id \in CommandIds, CloudCommand(id) PROVE LinkIInv'
    <2>1. /\ to_edge' = Append(to_edge, CommandDeliver(id))
          /\ UNCHANGED <<uplinkVars, phase, workerVars, idle, to_cloud, peer, sent, cloudVars>>
        BY <1>4 DEF CloudCommand
    <2>2. CommandDeliver(id) \in EdgeFrames /\ CommandDeliver(id) \notin AckFrames
        BY DEF EdgeFrames, CommandDeliver, AckFrames
    <2>3. UNCHANGED cloud_stored /\ peer \in {"alive", "closed", "gone"}
        BY <1>1, <2>1 DEF cloudVars, SessionTypeOK
    <2>4. to_edge' \in Seq(EdgeFrames) /\ AcksTrue'
        BY <1>1, <2>1, <2>2, <2>3, EdgeGrows
    <2> QED
        BY <1>3, <2>1, <2>3, <2>4
<1>5. CASE CloudProtocolError
    <2>1. /\ to_edge' = Append(to_edge, ProtocolError)
          /\ UNCHANGED <<uplinkVars, phase, workerVars, idle, to_cloud, peer, sent, cloudVars>>
        BY <1>5 DEF CloudProtocolError
    <2>2. ProtocolError \in EdgeFrames /\ ProtocolError \notin AckFrames
        BY DEF EdgeFrames, ProtocolError, AckFrames
    <2>3. UNCHANGED cloud_stored /\ peer \in {"alive", "closed", "gone"}
        BY <1>1, <2>1 DEF cloudVars, SessionTypeOK
    <2>4. to_edge' \in Seq(EdgeFrames) /\ AcksTrue'
        BY <1>1, <2>1, <2>2, <2>3, EdgeGrows
    <2> QED
        BY <1>3, <2>1, <2>3, <2>4
<1>6. CASE PeerCloses \/ PeerVanishes
    <2>1. /\ peer' \in {"alive", "closed", "gone"}
          /\ UNCHANGED <<uplinkVars, phase, workerVars, idle, to_cloud, to_edge, sent, cloudVars>>
        BY <1>6 DEF PeerCloses, PeerVanishes
    <2>2. UNCHANGED cloud_stored
        BY <2>1 DEF cloudVars
    <2>3. to_edge' \in Seq(EdgeFrames) /\ AcksTrue'
        BY <1>1, <2>1, <2>2, EdgeShrinks
    <2> QED
        BY <1>3, <2>1, <2>3
<1> QED
    BY <1>2, <1>4, <1>5, <1>6

LEMMA LinkStep == LinkIInv /\ [LinkNext]_linkVars => LinkIInv'
<1> SUFFICES ASSUME LinkIInv, [LinkNext]_linkVars PROVE LinkIInv'
    OBVIOUS
<1>1. SessionTypeOK /\ AcksTrue
    BY DEF LinkIInv
<1>2. ASSUME NEW id \in EnvelopeIds, AppendEvent(id) PROVE LinkIInv'
    <2>1. /\ ~DuplicateEnvelopeId(id) /\ ~SequenceExhausted /\ AppendRecord(id, "Protected")
          /\ UNCHANGED <<phase, workerVars, idle, to_cloud, to_edge, peer, sent, cloudVars>>
        BY <1>2 DEF AppendEvent
    <2>2. UNCHANGED <<replay_through, gap_resent_from, cloud_stored>>
        BY <2>1 DEF workerVars, cloudVars
    <2>3. SessionTypeOK' /\ AcksTrue'
        BY <1>1, <2>1, <2>2 DEF SessionTypeOK, AcksTrue
    <2> QED
        BY <2>1, <2>2, <2>3, AppendKeeps
<1>3. CASE UNCHANGED linkVars
    <2>1. UNCHANGED <<uplinkVars, phase, replay_through, gap_resent_from, idle, to_cloud, to_edge, peer, sent, cloud_stored>>
        BY <1>3 DEF linkVars, workerVars, cloudVars
    <2>2. SessionTypeOK' /\ AcksTrue' /\ (Connected' => Connected)
        BY <1>1, <2>1 DEF SessionTypeOK, AcksTrue, Connected
    <2> QED
        BY <2>1, <2>2, JournalLeftAlone
<1> QED
    BY <1>2, <1>3, EdgeKeeps, CloudKeeps DEF LinkNext

-----------------------------------------------------------------------------
\* Through every order of acknowledgements, replays, commands and broken
\* connections, the edge discards only what the cloud has stored, skips no
\* retained record on a connection and keeps inside the window (LinkInv).
THEOREM LinkInvariant == LinkSpec => []LinkInv
BY LinkInitInv, LinkStep, IInvMeans, PTL DEF LinkSpec

\* The session, the worker and the command handler use the journal only through
\* its operations: every step of theirs is one of UplinkState's or leaves the
\* journal alone, whatever frames the cloud sends.
THEOREM LinkUsesTheJournal == LinkSpec => UplinkSpec
<1>1. LinkInit => UplinkInit
    BY DEF LinkInit
<1>2. ASSUME LinkIInv, [LinkNext]_linkVars PROVE [UplinkNext]_uplinkVars
    <2>1. /\ UplinkInv /\ SessionTypeOK /\ to_edge \in Seq(EdgeFrames)
        BY <1>2 DEF LinkIInv, SessionTypeOK
    <2>2. ASSUME NEW id \in EnvelopeIds, ~DuplicateEnvelopeId(id), ~SequenceExhausted, AppendRecord(id, "Protected")
          PROVE  UplinkNext
        <3>1. UplinkAppend(id, "Protected") /\ "Protected" \in RetentionClass
            BY <2>2 DEF UplinkAppend, RetentionClass
        <3> QED
            BY <3>1 DEF UplinkNext
    <2>3. ASSUME NEW id \in EnvelopeIds, AppendEvent(id) PROVE UplinkNext
        BY <2>2, <2>3 DEF AppendEvent
    <2>4. CASE RecvCommand
        <3>1. to_edge # <<>> /\ Head1.kind = "CommandDeliver"
            BY <2>4 DEF RecvCommand, Receive
        <3>2. Head1 \in EdgeFrames
            BY <2>1, <3>1 DEF Head1
        <3>3. Head1.id \in EnvelopeIds
            BY <3>1, <3>2, EdgeFrameKinds, LinkFacts
        <3> QED
            BY <2>2, <2>4, <3>3 DEF RecvCommand
    <2>5. CASE RecvResumeAck \/ RecvUplinkAck
        <3>1. to_edge # <<>> /\ Head1.kind \in {"ResumeAck", "UplinkAck"} /\ ApplyAck
            BY <2>5 DEF RecvResumeAck, RecvUplinkAck, Receive
        <3>2. Head1 \in EdgeFrames
            BY <2>1, <3>1 DEF Head1
        <3>3. Head1.through \in Cursors /\ Head1.missing \in SUBSET Seqs
            BY <3>1, <3>2, EdgeFrameKinds
        <3>4. ObserveAck(Head1.through, Head1.missing, FALSE) \/ UNCHANGED uplinkVars
            BY <3>1 DEF ApplyAck, AckThrough
        <3>5. FALSE \in BOOLEAN
            OBVIOUS
        <3> QED
            BY <3>3, <3>4, <3>5 DEF UplinkNext
    <2>6. CASE Connect \/ RecvPong \/ RecvProtocolError \/ RecvClosed \/ Poll
        BY <2>6 DEF Connect, RecvPong, RecvProtocolError, RecvClosed, Poll
    <2>7. CASE CloudRecv \/ (\E id \in CommandIds : CloudCommand(id)) \/ CloudProtocolError \/ PeerCloses \/ PeerVanishes
        BY <2>7 DEF CloudRecv, CloudCommand, CloudProtocolError, PeerCloses, PeerVanishes
    <2>8. CASE UNCHANGED linkVars
        BY <2>8 DEF linkVars
    <2> QED
        BY <1>2, <2>3, <2>4, <2>5, <2>6, <2>7, <2>8 DEF LinkNext, EdgeRecv
<1> QED
    BY <1>1, <1>2, LinkInitInv, LinkStep, PTL DEF LinkSpec, UplinkSpec
=============================================================================
