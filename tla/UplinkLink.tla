------------------------------ MODULE UplinkLink ------------------------------
(***************************************************************************)
(* One edge's uplink connection: LinkSession (edge-uplink/src/session.rs), *)
(* UplinkWorker (edge-uplink/src/worker.rs), the socket (dial.rs) and the  *)
(* thread that drives them (uplink_loop, uplink_once and handle_command of *)
(* edge-bin/src/main.rs), over the journal of UplinkState.                 *)
(*                                                                         *)
(* A connection is a pair of FIFO channels.  The edge's uplink thread      *)
(* reads a frame, lets the worker handle it and replays retained records   *)
(* within a window; a read that times out drives the heartbeat.  Other     *)
(* threads append to the journal at any time.                              *)
(*                                                                         *)
(* The cloud's end is external: it stores sequenced envelopes in any       *)
(* order, acknowledges each with its contiguous prefix and the holes above *)
(* it, answers Ping and may fail to store an envelope it received.         *)
(* Payloads, timestamps and connection ids are left out: edge-bin builds a *)
(* new worker for every attempt, and a frame of an older connection cannot *)
(* arrive on a new socket.                                                 *)
(***************************************************************************)
EXTENDS UplinkState, Sequences, SequencesExt

CONSTANTS
    CommandIds,     \* envelope ids of command results: their cmd_id
    ReplayWindow,   \* REPLAY_WINDOW: 32
    IdleTicks,      \* IDLE_TIMEOUT / read timeout: 90 s / 30 s
    VanishPhases,   \* the phases in which the peer may vanish silently
    CloudStart,     \* at most so many sequences of an earlier installation
    MaxDrops,       \* bound: how often the cloud fails to store what it received
    MaxBreaks,      \* bound: connections that end from outside, late answers
    MaxDeliver      \* bound: commands delivered

ASSUME LinkAssumption ==
    /\ CommandIds \subseteq EnvelopeIds
    /\ ReplayWindow \in Nat \ {0}
    /\ IdleTicks \in Nat \ {0}
    /\ VanishPhases \subseteq {"Resuming", "Live"}
    /\ CloudStart \in Cursors
    /\ MaxDrops \in Nat /\ MaxBreaks \in Nat /\ MaxDeliver \in Nat

VARIABLES
    phase,            \* Phase of LinkSession
    replay_through,   \* highest sequence handed to the transport
    gap_resent_from,  \* gap head already rewound to; 0 is None
    idle,             \* read timeouts since last_recv_at
    to_cloud,         \* frames on the wire
    to_edge,
    peer,             \* "alive", "closed" (socket ended) or "gone" (silent)
    sent,             \* history: sequences handed to this connection
    cloud_stored,     \* sequences the cloud stored
    drops,            \* how often it received each and failed to store it
    breaks, delivered

workerVars == <<replay_through, gap_resent_from>>
cloudVars == <<cloud_stored, drops>>
boundVars == <<breaks, delivered>>
linkVars == <<uplinkVars, phase, workerVars, idle, to_cloud, to_edge, peer,
              sent, cloudVars, boundVars>>

-----------------------------------------------------------------------------
Phases == {"Idle", "Resuming", "Live", "Backoff"}
Connected == phase \in {"Resuming", "Live"}

Resume == [kind |-> "Resume"]
Ping == [kind |-> "Ping"]
Record(s) == [kind |-> "Record", seq |-> s]
Pong == [kind |-> "Pong"]
ProtocolError == [kind |-> "ProtocolError"]
CommandDeliver(id) == [kind |-> "CommandDeliver", id |-> id]

\* The cloud's cursor and holes (external).
CloudPrefix(stored) ==
    CHOOSE c \in Cursors : 1..c \subseteq stored /\ (c + 1) \notin stored
CloudHoles(stored) ==
    {s \in Seqs : s \notin stored /\ \E t \in stored : s < t}
CloudAck(kind, stored) ==
    [kind |-> kind, through |-> CloudPrefix(stored), missing |-> CloudHoles(stored)]

LinkInit ==
    /\ UplinkInit
    /\ phase = "Idle"
    /\ replay_through = 0 /\ gap_resent_from = 0
    /\ idle = 0
    /\ to_cloud = <<>> /\ to_edge = <<>>
    /\ peer = "alive"
    /\ sent = {}
    /\ \E k \in 0..CloudStart : cloud_stored = 1..k
    /\ drops = [s \in Seqs |-> 0]
    /\ breaks = 0 /\ delivered = 0

\* Another thread (modem poll, panel) queues an event.
AppendEvent(id) ==
    /\ ~DuplicateEnvelopeId(id) /\ ~SequenceExhausted
    /\ AppendRecord(id, "Protected")
    /\ UNCHANGED <<phase, workerVars, idle, to_cloud, to_edge, peer, sent,
                   cloudVars, boundVars>>

-----------------------------------------------------------------------------
(* Connecting: uplink_once builds the worker; start sends Resume. *)

\* Mutant: an attempt keeps the replay cursor of the one before.
FreshReplayMutant == replay_through
FreshReplay == 0

Connect ==
    /\ ~Connected
    /\ phase' = "Resuming"
    /\ replay_through' = FreshReplay
    /\ gap_resent_from' = 0
    /\ idle' = 0
    /\ to_cloud' = <<Resume>>
    /\ to_edge' = <<>>
    /\ peer' = "alive"
    /\ sent' = {}
    /\ UNCHANGED <<uplinkVars, cloudVars, boundVars>>

\* The attempt is over: uplink_once returns and drops the socket.  What was
\* written may still reach the cloud; what was not read is gone.
EndAttempt ==
    /\ phase' = "Backoff"
    /\ idle' = 0
    /\ to_edge' = <<>>

-----------------------------------------------------------------------------
(* replay: records above replay_through, in order, while the window lasts. *)

\* What is sent to a peer that is gone is lost.
Send(frames) == to_cloud' = IF peer = "gone" THEN to_cloud ELSE to_cloud \o frames

ReplayStart(rt, c) == IF rt < c THEN c ELSE rt

ReplaySet(rt, c, retained) ==
    LET from == ReplayStart(rt, c)
    IN  {s \in retained :
            /\ s > from
            /\ Cardinality({t \in retained : from < t /\ t <= s})
                   <= ReplayWindow - (from - c)}

\* The sequences of S in the order of the journal.
Ascending(S) ==
    CHOOSE seq \in SetToSeqs(S) : \A i, j \in DOMAIN seq : i < j => seq[i] < seq[j]

\* The frames of ReplaySet(...) go out after `frames' and replay_through
\* follows the last one.
Replay(rt, c, retained, frames) ==
    LET S == ReplaySet(rt, c, retained)
        batch == Ascending(S)
    IN  /\ Send(frames \o [i \in 1..Len(batch) |-> Record(batch[i])])
        /\ replay_through' = IF S = {} THEN ReplayStart(rt, c) ELSE Max(S)
        /\ sent' = sent \cup S

-----------------------------------------------------------------------------
(* Inbound frames *)

Head1 == to_edge[1]
Receive(kind) == Connected /\ to_edge # <<>> /\ Head1.kind = kind

\* Mutant: the rewind goes to the missing sequence, not before it.
RewoundMutant(M) ==
    IF M # {} /\ gap_resent_from # Min(M) /\ Min(M) < replay_through
    THEN Min(M) ELSE replay_through

\* apply_ack: a gap head not seen before rewinds the replay cursor.
GapHead(M) == IF M = {} THEN 0 ELSE Min(M)
Rewound(M) ==
    IF M # {} /\ gap_resent_from # Min(M) /\ Min(M) - 1 < replay_through
    THEN Min(M) - 1 ELSE replay_through

\* Mutant: without holes, all that was sent counts as acknowledged.
AckThroughMutant ==
    IF Head1.missing = {} THEN replay_through ELSE Head1.through
AckThrough == Head1.through

\* The acknowledgement at the head of the channel is applied and the freed
\* window refilled; a refused one ends the attempt.
ApplyAck ==
    \/ /\ ~AckRefused(AckThrough, Head1.missing)
       /\ ObserveAck(AckThrough, Head1.missing, FALSE)
       /\ gap_resent_from' = GapHead(Head1.missing)
       /\ Replay(Rewound(Head1.missing), committed_through',
                 DOMAIN records', <<>>)
       /\ phase' = "Live"
       /\ idle' = 0
       /\ to_edge' = Tail(to_edge)
    \/ /\ AckRefused(AckThrough, Head1.missing)
       /\ EndAttempt
       /\ gap_resent_from' = GapHead(Head1.missing)
       /\ replay_through' = Rewound(Head1.missing)
       /\ UNCHANGED <<uplinkVars, to_cloud, sent>>

\* on_resume_ack
RecvResumeAck ==
    /\ Receive("ResumeAck")
    /\ phase = "Resuming"
    /\ ApplyAck
    /\ UNCHANGED <<peer, cloudVars, boundVars>>

\* on_uplink_ack
RecvUplinkAck ==
    /\ Receive("UplinkAck")
    /\ phase = "Live"
    /\ ApplyAck
    /\ UNCHANGED <<peer, cloudVars, boundVars>>

\* on_pong
RecvPong ==
    /\ Receive("Pong")
    /\ phase = "Live"
    /\ idle' = 0
    /\ to_edge' = Tail(to_edge)
    /\ UNCHANGED <<uplinkVars, phase, workerVars, to_cloud, peer, sent,
                   cloudVars, boundVars>>

\* on_protocol_error drops the connection.
RecvProtocolError ==
    /\ Receive("ProtocolError")
    /\ EndAttempt
    /\ UNCHANGED <<uplinkVars, workerVars, to_cloud, peer, sent, cloudVars,
                   boundVars>>

\* handle_command: the result is queued under the command's id, or found
\* queued already, and sent at once, past the replay window.  When the
\* executor or the append fails nothing is queued or sent; the connection
\* goes on.  Nothing in last_recv_at changes.
RecvCommand ==
    /\ Receive("CommandDeliver")
    /\ to_edge' = Tail(to_edge)
    /\ LET id == Head1.id
       IN  \/ /\ ~DuplicateEnvelopeId(id) /\ ~SequenceExhausted
              /\ AppendRecord(id, "Protected")
              /\ Send(<<Record(NextSequence)>>)
              /\ sent' = sent \cup {NextSequence}
           \/ /\ DuplicateEnvelopeId(id)
              /\ Send(<<Record(envelope_sequences[id])>>)
              /\ sent' = sent \cup {envelope_sequences[id]}
              /\ UNCHANGED uplinkVars
           \/ UNCHANGED <<uplinkVars, to_cloud, sent>>
    /\ UNCHANGED <<phase, workerVars, idle, peer, cloudVars, boundVars>>

\* recv_envelope returns Closed (or a read error).
RecvClosed ==
    /\ Connected
    /\ to_edge = <<>>
    /\ peer = "closed"
    /\ EndAttempt
    /\ UNCHANGED <<uplinkVars, workerVars, to_cloud, peer, sent, cloudVars,
                   boundVars>>

EdgeRecv ==
    \/ RecvResumeAck \/ RecvUplinkAck \/ RecvPong
    \/ RecvProtocolError \/ RecvCommand \/ RecvClosed

-----------------------------------------------------------------------------
(* A read timed out: poll sends Ping when Live, or drops an idle connection *)
(* (only when Live), and replays in any case, Resuming included.            *)

IdleExpired == phase = "Live" /\ idle + 1 >= IdleTicks

\* Mutant: sending a ping counts as activity.
IdleAfterPingMutant == 0
IdleAfterPing == IF phase = "Live" THEN idle + 1 ELSE idle

\* A peer that is there answers within a read timeout, but for so many times.
Prompt == (to_cloud = <<>> \/ peer = "gone") /\ UNCHANGED breaks
Late ==
    /\ to_cloud # <<>> /\ peer = "alive"
    /\ breaks < MaxBreaks /\ breaks' = breaks + 1

Poll ==
    /\ Connected
    /\ to_edge = <<>>
    /\ peer # "closed"
    /\ Prompt \/ Late
    /\ Replay(replay_through, committed_through, DOMAIN records,
              IF phase = "Live" /\ ~IdleExpired THEN <<Ping>> ELSE <<>>)
    /\ IF IdleExpired
       THEN EndAttempt
       ELSE /\ idle' = IdleAfterPing
            /\ UNCHANGED <<phase, to_edge>>
    /\ UNCHANGED <<uplinkVars, gap_resent_from, peer, cloudVars, delivered>>

-----------------------------------------------------------------------------
(* The cloud and the network (external) *)

\* A frame of the cloud reaches the edge only while the edge listens.
Answer(frame) ==
    to_edge' = IF Connected THEN Append(to_edge, frame) ELSE to_edge

CloudHas(kind) == peer = "alive" /\ to_cloud # <<>> /\ to_cloud[1].kind = kind

CloudResume ==
    /\ CloudHas("Resume")
    /\ Answer(CloudAck("ResumeAck", cloud_stored))
    /\ UNCHANGED cloudVars

CloudStore ==
    /\ CloudHas("Record")
    /\ cloud_stored' = cloud_stored \cup {to_cloud[1].seq}
    /\ Answer(CloudAck("UplinkAck", cloud_stored'))
    /\ UNCHANGED drops

CloudDrop ==
    /\ CloudHas("Record")
    /\ FoldFunction(+, 0, drops) < MaxDrops
    /\ to_cloud[1].seq \notin cloud_stored
    /\ drops' = [drops EXCEPT ![to_cloud[1].seq] = @ + 1]
    /\ UNCHANGED <<to_edge, cloud_stored>>

CloudPong ==
    /\ CloudHas("Ping")
    /\ Answer(Pong)
    /\ UNCHANGED cloudVars

CloudRecv ==
    /\ CloudResume \/ CloudStore \/ CloudDrop \/ CloudPong
    /\ to_cloud' = Tail(to_cloud)
    /\ UNCHANGED <<uplinkVars, phase, workerVars, idle, peer, sent, boundVars>>

CloudCommand(id) ==
    /\ phase = "Live" /\ peer = "alive"
    /\ delivered < MaxDeliver
    /\ delivered' = delivered + 1
    /\ to_edge' = Append(to_edge, CommandDeliver(id))
    /\ UNCHANGED <<uplinkVars, phase, workerVars, idle, to_cloud, peer, sent,
                   cloudVars, breaks>>

CloudProtocolError ==
    /\ Connected /\ peer = "alive"
    /\ breaks < MaxBreaks
    /\ breaks' = breaks + 1
    /\ to_edge' = Append(to_edge, ProtocolError)
    /\ UNCHANGED <<uplinkVars, phase, workerVars, idle, to_cloud, peer, sent,
                   cloudVars, delivered>>

PeerCloses ==
    /\ Connected /\ peer = "alive"
    /\ breaks < MaxBreaks
    /\ breaks' = breaks + 1
    /\ peer' = "closed"
    /\ UNCHANGED <<uplinkVars, phase, workerVars, idle, to_cloud, to_edge, sent,
                   cloudVars, delivered>>

\* The gateway behind a proxy is replaced: the socket stays open, nothing
\* answers any more (the comment on TCP_USER_TIMEOUT in dial.rs).
PeerVanishes ==
    /\ phase \in VanishPhases /\ peer = "alive"
    /\ breaks < MaxBreaks
    /\ breaks' = breaks + 1
    /\ peer' = "gone"
    /\ UNCHANGED <<uplinkVars, phase, workerVars, idle, to_cloud, to_edge, sent,
                   cloudVars, delivered>>

-----------------------------------------------------------------------------
LinkNext ==
    \/ \E id \in EnvelopeIds \ CommandIds : AppendEvent(id)
    \/ Connect \/ EdgeRecv \/ Poll
    \/ CloudRecv
    \/ \E id \in CommandIds : CloudCommand(id)
    \/ CloudProtocolError \/ PeerCloses \/ PeerVanishes

LinkSpec == LinkInit /\ [][LinkNext]_linkVars

\* The uplink thread runs for ever: it reconnects five seconds after an
\* attempt ends, reads what has arrived, and a read always returns (the read
\* timeout of `start').  The cloud handles what it receives while it is
\* there.  Nothing else is fair.
LinkFairness ==
    /\ WF_linkVars(Connect)
    /\ WF_linkVars(EdgeRecv)
    /\ WF_linkVars(Poll)
    /\ WF_linkVars(CloudRecv)

FairLinkSpec == LinkSpec /\ LinkFairness
-----------------------------------------------------------------------------
(* Properties *)

Frames ==
    {Resume, Ping} \cup {Record(s) : s \in Seqs}
AckFrames ==
    [kind : {"ResumeAck", "UplinkAck"}, through : Cursors, missing : SUBSET Seqs]

\* The types of the session, the worker and the channels.
LinkTypeOK ==
    /\ UplinkTypeOK
    /\ phase \in Phases
    /\ replay_through \in Cursors /\ gap_resent_from \in Cursors
    /\ idle \in 0..IdleTicks
    /\ \A i \in DOMAIN to_cloud : to_cloud[i] \in Frames
    /\ \A i \in DOMAIN to_edge :
          \/ to_edge[i] \in {Pong, ProtocolError}
          \/ to_edge[i] \in {CommandDeliver(id) : id \in CommandIds}
          \/ to_edge[i] \in AckFrames
    /\ peer \in {"alive", "closed", "gone"}
    /\ sent \subseteq Seqs /\ cloud_stored \subseteq Seqs

\* The edge discards a record only when the cloud has stored it: no order
\* of acknowledgements, lost connections and replays moves the committed
\* cursor over a sequence the cloud lacks.
CommittedIsStored == 1..committed_through \subseteq cloud_stored

\* replay_through is what its comment says, "Highest sequence handed to the
\* transport on this connection": every retained record up to it has been
\* handed to this connection, none is skipped.  A skipped record at the end
\* of the queue would not even show as a hole.
SentOnThisConnection ==
    Connected => DOMAIN records \cap (1..replay_through) \subseteq sent

\* The replay cursor never runs further ahead of the committed cursor than
\* the window, through rewinds and acknowledgements.
WindowRespected ==
    Connected => replay_through <= committed_through + ReplayWindow

\* These together: what the edge counts as sent and as stored is so, and stays
\* inside the window.
LinkInv == LinkTypeOK /\ CommittedIsStored /\ SentOnThisConnection /\ WindowRespected

\* "A reconnected one drains what it gathered" (README): every queued record
\* is committed in the end, over connections that close, protocol errors
\* and a peer that vanishes while the session is live - unless the cloud
\* itself fails to store one: at the end of the queue it leaves no hole.
Drained ==
    \A s \in Seqs :
        (s <= last_allocated) ~>
            (s <= committed_through \/ \E t \in Seqs : drops[t] > 0)

\* A hole the cloud has reported is closed in the end.  Two excuses: a command
\* result was sent past the replay (see GapCloses), or the cloud failed to
\* store the hole, or one below it, twice: it is sent again once, and "sending
\* it a third time inside the same round would not have helped" (worker.rs), so
\* that such a hole stays open until the connection ends.
GapClosesInWindow ==
    \A s \in Seqs :
        (s \in missing) ~>
            \/ s <= committed_through
            \/ delivered # 0
            \/ \E t \in 1..s : drops[t] > 1

\* A hole the cloud has reported is closed in the end, when the cloud fails to
\* store a record only once: "One rewind per distinct gap head is enough.  The
\* resend either closes the gap ..." (worker.rs).  A command result that
\* overtakes a record not sent yet makes that record the head of a gap, and
\* the one rewind is then spent before the record's first sending.
GapCloses ==
    \A s \in Seqs :
        (s \in missing) ~> (s <= committed_through \/ \E t \in 1..s : drops[t] > 1)

\* A connection whose peer has vanished is given up.
DeadLinkDropped == (phase = "Live" /\ peer = "gone") ~> (phase = "Backoff")
=============================================================================
