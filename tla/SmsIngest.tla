----------------------------- MODULE SmsIngest -----------------------------
(***************************************************************************)
(* How the poll thread carries received messages away: it lists a module's *)
(* storage (over QMI, or over AT for modules without a QMI node), joins    *)
(* the fragments of long messages, keeps each message in the local inbox   *)
(* and in the durable outbox, writes the fragments into its own ledger and *)
(* only then deletes them from the module.  Every statement and every      *)
(* radio exchange may fail, the process may stop between any two of them,  *)
(* the network delivers whenever there is a free slot, and an operator's   *)
(* console reads and deletes slots while the poll thread is not holding    *)
(* the arbiter.                                                            *)
(*                                                                         *)
(* An arrival is one fragment delivered once by the network; Part says     *)
(* what it carries.  Texts are names.                                      *)
(***************************************************************************)
EXTENDS Integers, FiniteSets, SequencesExt

CONSTANTS
    Modems,        \* sequence of transports, "qmi" or "at", in poll order
    Slots,         \* storage indexes of every module: 0 .. Slots - 1
    Window,        \* SMS_SWEEP_WINDOW
    Arrivals,      \* what the network will deliver
    Supplies,      \* what of it may come in one behaviour
    Part,          \* arrival -> [to, group, total, seq, text]
    Unstamped,     \* arrivals without a readable service-centre timestamp
    Grace,         \* FRAGMENT_GRACE_MS, in ticks
    Keep,          \* SMS_LEDGER_KEEP
    LocalWrap,     \* the modulus of the local row number, in ticks
    MaxTime,       \* bound on the clock
    LastArrival,   \* bound: nothing arrives after this time
    MaxFaults,     \* bound on failures and stops
    MaxConsole     \* bound on what the console does

ASSUME SmsAssumption ==
    /\ Modems \in Seq({"qmi", "at"}) /\ Len(Modems) > 0
    /\ Slots \in Nat \ {0} /\ Window \in 1 .. Slots /\ Slots % Window = 0
    /\ Unstamped \subseteq Arrivals /\ Supplies \subseteq SUBSET Arrivals
    /\ Grace \in Nat /\ Keep \in Nat /\ LocalWrap \in Nat \ {0}
    /\ MaxTime \in Nat /\ LastArrival \in Nat /\ MaxFaults \in Nat /\ MaxConsole \in Nat
    /\ \A a \in Arrivals : /\ Part[a].to \in 1 .. Len(Modems)
                           /\ Part[a].group \in Nat /\ Part[a].total \in Nat /\ Part[a].seq \in Nat

VARIABLES
    slots,         \* modem -> storage index -> row or NoRow
    read,          \* modem -> indexes somebody has marked read
    pending,       \* arrivals the network still holds
    arrived,       \* history: the arrivals delivered, each with its stamp
    now,           \* the wall clock
    cursor,        \* SMS_SWEEP_CURSOR, shared by all modules
    turn,          \* the modem being polled
    began,         \* the time the round of polls began
    pc,            \* where the poll thread is
    pass,          \* what was listed: sequence of [slot, row]
    t,             \* the time the pass judges by
    ready,         \* messages still to be kept: sequence of [sources, missing]
    count,         \* messages of this pass kept so far
    fps,           \* fragments to be entered into the ledger (positions in pass)
    gone,          \* positions in pass to be deleted from the module
    ledger,        \* modem -> table ingested_sms in the order of its row ids
    local,         \* table local_messages: row number -> message
    queued,        \* messages appended to the durable outbox
    deleted,       \* history: arrivals the agent deleted
    exposed,       \* history: arrivals queued by a pass that did not reach the ledger
    forgotten,     \* history: fingerprints pruned from the ledger
    reused,        \* history: slots of the polled modem the console emptied in this pass
    faults, consoled

netVars == <<slots, read, pending, arrived>>
passVars == <<pass, t, ready, count, fps, gone>>
keptVars == <<ledger, local, queued>>
histVars == <<deleted, exposed, forgotten, reused>>
smsVars == <<netVars, now, cursor, turn, began, pc, passVars, keptVars, histVars,
             faults, consoled>>

----------------------------------------------------------------------------
NoRow == [a |-> "none", at |-> -2]
NoStamp == -1
Index == 0 .. Slots - 1
M == 1 .. Len(Modems)
Kind == Modems[turn]
Windows == Slots \div Window   \* SMS_SWEEP_LIMIT / SMS_SWEEP_WINDOW

\* Rows the network put there; own messages and drafts have total = 0.
IsReceived(row) == row # NoRow /\ Part[row.a].total > 0

\* fragment_fingerprint: sender, reference, count, place, a hash of the text,
\* and the stamp.
Fingerprint(row) == <<Part[row.a], row.at>>

\* ingested_sms_copies; a fingerprint has one row at most.
Copies(fp) ==
    LET table == ledger[turn]
        rows == {i \in DOMAIN table : table[i].fp = fp}
    IN  IF rows = {} THEN 0 ELSE table[CHOOSE i \in rows : TRUE].copies

\* seen_before: the first n occurrences of a fingerprint stored n times are old.
SeenBefore(p) ==
    Cardinality({q \in 1 .. p : Fingerprint(pass[q].row) = Fingerprint(pass[p].row)})
        <= Copies(Fingerprint(pass[p].row))

\* The members of a set one after the other.
InOrder(S, Before(_, _)) ==
    CHOOSE seq \in SetToSeqs(S) : \A i, j \in DOMAIN seq : i < j => Before(seq[i], seq[j])

Ascending(S) == InOrder(S, <)

----------------------------------------------------------------------------
\* assemble: P is the set of positions of the pass that are not ours already.
Piece(p) == Part[pass[p].row.a]
Stamp(p) == pass[p].row.at

\* A fragment of nothing the code can reason about is a message by itself.
Alone(p) == Piece(p).total <= 1 \/ Piece(p).seq = 0 \/ Piece(p).seq > Piece(p).total

GroupOf(p) == <<Piece(p).group, Piece(p).total>>

\* The fragments of one place in a group, oldest first; None sorts before Some.
Queue(P, g, s) ==
    InOrder({p \in P : ~Alone(p) /\ GroupOf(p) = g /\ Piece(p).seq = s},
            LAMBDA p, q : Stamp(p) < Stamp(q) \/ (Stamp(p) = Stamp(q) /\ p < q))

Rounds(P, g) == LET Lengths == {Len(Queue(P, g, s)) : s \in 1 .. g[2]}
                IN  CHOOSE n \in Lengths : \A k \in Lengths : n <= k

Wholes(P, g) ==
    [r \in 1 .. Rounds(P, g) |->
        [sources |-> [s \in 1 .. g[2] |-> Queue(P, g, s)[r]], missing |-> {}]]

Leftovers(P, g) ==
    {p \in P : ~Alone(p) /\ GroupOf(p) = g
               /\ \A r \in DOMAIN Wholes(P, g) : p \notin ToSet(Wholes(P, g)[r].sources)}

\* Only a group whose newest stamp is older than the grace period is released.
Expired(P, g) ==
    LET stamps == {Stamp(p) : p \in Leftovers(P, g)} \ {NoStamp}
    IN  stamps # {} /\ \A s \in stamps : t - s > Grace

Released(P, g) ==
    IF Leftovers(P, g) # {} /\ Expired(P, g)
    THEN <<[sources |-> Ascending(Leftovers(P, g)),
            missing |-> (1 .. g[2]) \ {Piece(p).seq : p \in Leftovers(P, g)}]>>
    ELSE <<>>

Assemble(P) ==
    LET singles == Ascending({p \in P : Alone(p)})
        groups == InOrder({GroupOf(p) : p \in {q \in P : ~Alone(q)}},
                          LAMBDA g, h : g[1] < h[1] \/ (g[1] = h[1] /\ g[2] < h[2]))
    IN  [i \in DOMAIN singles |-> [sources |-> <<singles[i]>>, missing |-> {}]]
        \o FlattenSeq([i \in DOMAIN groups |-> Wholes(P, groups[i]) \o Released(P, groups[i])])

----------------------------------------------------------------------------
SmsInit ==
    /\ slots = [m \in M |-> [i \in Index |-> NoRow]] /\ read = [m \in M |-> {}]
    /\ pending \in Supplies /\ arrived = <<>>
    /\ now = 0 /\ cursor = 0 /\ turn = 1 /\ began = 0 /\ pc = "next"
    /\ pass = <<>> /\ t = 0 /\ ready = <<>> /\ count = 0 /\ fps = <<>> /\ gone = <<>>
    /\ ledger = [m \in M |-> <<>>] /\ local = <<>> /\ queued = {}
    /\ deleted = {} /\ exposed = {} /\ forgotten = {} /\ reused = {}
    /\ faults = 0 /\ consoled = 0

\* What a failure costs: it is counted, and only so many happen.
Fault == faults < MaxFaults /\ faults' = faults + 1

\* The pass is over, by its end or by `?`; the next module's turn comes.
EndPass ==
    /\ pc' = "next"
    /\ turn' = IF turn = Len(Modems) THEN 1 ELSE turn + 1
    /\ began' = IF turn = Len(Modems) THEN now ELSE began
    /\ exposed' = exposed \cup {pass[fps[k]].row.a : k \in DOMAIN fps}
    /\ pass' = <<>> /\ t' = 0 /\ ready' = <<>> /\ count' = 0
    /\ fps' = <<>> /\ gone' = <<>> /\ reused' = {}

Abort == Fault /\ EndPass

\* probe_one returns before it reads the storage; the sweep cursor does not move.
ProbeFails ==
    /\ pc = "next" /\ Abort
    /\ UNCHANGED <<netVars, now, cursor, keptVars, deleted, forgotten, consoled>>

\* The rows of some indexes, in the order they are listed.
RowsAt(order) == [k \in DOMAIN order |-> [slot |-> order[k], row |-> slots[turn][order[k]]]]

Received == {i \in Index : IsReceived(slots[turn][i])}

\* sweep_slots: the received rows of this pass's window that were not listed.
SweptMutant(listed) == {}
Swept(listed) == {i \in Received \ listed : i \div Window = cursor}

\* collect_inbound_sweeping: what the listing names (this firmware names unread
\* rows only) and then the rows of one window.  A storage that cannot be listed
\* and a slot that cannot be read are skipped.
ListQmi ==
    /\ pc = "next" /\ Kind = "qmi"
    /\ cursor' = (cursor + 1) % Windows
    /\ LET unread == Received \ read[turn]
       IN  \E listed \in SUBSET unread : \E swept \in SUBSET Swept(listed) :
              /\ pass' = RowsAt(Ascending(listed) \o Ascending(swept))
              /\ \/ listed = unread /\ swept = Swept(listed) /\ UNCHANGED faults
                 \/ (listed # unread \/ swept # Swept(listed)) /\ Fault
    /\ t' = now /\ pc' = "listed"
    /\ UNCHANGED <<netVars, now, turn, began, ready, count, fps, gone, keptVars, histVars,
                   consoled>>

\* A listed row that cannot be read ends the pass; the window is spent.
ReadFails ==
    /\ pc = "next" /\ Kind = "qmi"
    /\ cursor' = (cursor + 1) % Windows
    /\ Abort
    /\ UNCHANGED <<netVars, now, keptVars, deleted, forgotten, consoled>>

\* list_over_at: every received row, read or not; nothing received, nothing to do.
ListAt ==
    /\ pc = "next" /\ Kind = "at"
    /\ IF Received = {}
       THEN EndPass
       ELSE /\ pass' = RowsAt(Ascending(Received))
            /\ t' = began /\ pc' = "listed"
            /\ UNCHANGED <<turn, began, ready, count, fps, gone, exposed, reused>>
    /\ UNCHANGED <<netVars, now, cursor, keptVars, deleted, forgotten, faults, consoled>>

\* The rows are taken off the module.
TakeOff(positions) ==
    LET indexes == {pass[p].slot : p \in positions}
        taken == {slots[turn][i] : i \in indexes} \ {NoRow}
    IN  /\ slots' = [slots EXCEPT ![turn] =
                        [i \in Index |-> IF i \in indexes THEN NoRow ELSE @[i]]]
        /\ read' = [read EXCEPT ![turn] = @ \ indexes]
        /\ deleted' = deleted \cup {[a |-> r.a, fp |-> Fingerprint(r),
                                     excused |-> \E i \in indexes \cap reused :
                                                    slots[turn][i] = r] : r \in taken}

\* The books are asked which fragments are ours, settle_inbound decides; over
\* QMI the ones that are ours are deleted now, up to the first failure.
Settle ==
    /\ pc = "listed"
    /\ LET ours == {p \in DOMAIN pass : SeenBefore(p)}
           oursInOrder == Ascending(ours)
       IN  /\ ready' = Assemble(DOMAIN pass \ ours)
           /\ IF Kind = "qmi"
              THEN /\ gone' = <<>>
                   /\ \/ TakeOff(ours) /\ UNCHANGED faults
                      \/ \E n \in 0 .. Len(oursInOrder) - 1 :
                            Fault /\ TakeOff(ToSet(SubSeq(oursInOrder, 1, n)))
              ELSE /\ gone' = oursInOrder
                   /\ UNCHANGED <<slots, read, deleted, faults>>
    /\ pc' = "keep"
    /\ UNCHANGED <<pending, arrived, now, cursor, turn, began, pass, t, count, fps, keptVars,
                   exposed, forgotten, reused, consoled>>

\* The number of the local row: the time modulo a million milliseconds and the
\* place of the message in this pass.
LocalSeq == <<t % LocalWrap, count>>

\* insert_local_message: a row with the same number is overwritten.
KeepLocal ==
    /\ pc = "keep" /\ ready # <<>>
    /\ local' = [k \in DOMAIN local \cup {LocalSeq} |->
                    IF k = LocalSeq
                    THEN [modem |-> turn,
                          parts |-> [s \in DOMAIN Head(ready).sources |->
                                        pass[Head(ready).sources[s]].row.a]]
                    ELSE local[k]]
    /\ pc' = "enqueue"
    /\ UNCHANGED <<netVars, now, cursor, turn, began, passVars, ledger, queued, histVars,
                   faults, consoled>>

EnqueueSmsMutant ==
    /\ pc = "enqueue"
    /\ fps' = fps \o Head(ready).sources
    /\ gone' = gone \o Head(ready).sources
    /\ count' = count + 1 /\ ready' = Tail(ready) /\ pc' = "keep"
    /\ UNCHANGED <<netVars, now, cursor, turn, began, pass, t, keptVars, histVars, faults,
                   consoled>>

\* enqueue_sms; the number tells one append from another.
EnqueueSms ==
    /\ pc = "enqueue"
    /\ queued' = queued \cup
          {[n |-> Cardinality(queued) + 1, modem |-> turn, missing |-> Head(ready).missing,
            at |-> t, key |-> LocalSeq,
            rows |-> [s \in DOMAIN Head(ready).sources |-> pass[Head(ready).sources[s]].row]]}
    /\ fps' = fps \o Head(ready).sources
    /\ gone' = gone \o Head(ready).sources
    /\ count' = count + 1 /\ ready' = Tail(ready) /\ pc' = "keep"
    /\ UNCHANGED <<netVars, now, cursor, turn, began, pass, t, ledger, local, histVars,
                   faults, consoled>>

RecordMutant(table, fp) ==
    IF \E i \in DOMAIN table : table[i].fp = fp
    THEN table
    ELSE Append(table, [fp |-> fp, copies |-> 1, last |-> t])

\* record_ingested_sms.
Record(table, fp) ==
    IF \E i \in DOMAIN table : table[i].fp = fp
    THEN [i \in DOMAIN table |-> IF table[i].fp = fp
                                 THEN [table[i] EXCEPT !.copies = @ + 1, !.last = t]
                                 ELSE table[i]]
    ELSE Append(table, [fp |-> fp, copies |-> 1, last |-> t])

\* One fragment after the other, in one transaction.
RecordAll(table, fingerprints) ==
    LET after[k \in 0 .. Len(fingerprints)] ==
            IF k = 0 THEN table ELSE Record(after[k - 1], fingerprints[k])
    IN  after[Len(fingerprints)]

RecordIngested ==
    /\ pc = "keep" /\ ready = <<>> /\ fps # <<>>
    /\ ledger' = [ledger EXCEPT ![turn] =
                    RecordAll(@, [k \in DOMAIN fps |-> Fingerprint(pass[fps[k]].row)])]
    /\ pc' = "prune"
    /\ fps' = <<>>
    /\ UNCHANGED <<netVars, now, cursor, turn, began, pass, t, ready, count, gone, local,
                   queued, histVars, faults, consoled>>

\* prune_ingested_sms: the newest Keep rows stay, by time and then by row id.
Newer(table, i) == {j \in DOMAIN table : \/ table[j].last > table[i].last
                                         \/ table[j].last = table[i].last /\ j > i}

Prune ==
    /\ pc = "prune"
    /\ LET table == ledger[turn]
           out == {i \in DOMAIN table : Cardinality(Newer(table, i)) >= Keep}
           kept == Ascending(DOMAIN table \ out)
       IN  /\ ledger' = [ledger EXCEPT ![turn] = [k \in DOMAIN kept |-> table[kept[k]]]]
           /\ forgotten' = forgotten \cup {table[i].fp : i \in out}
    /\ pc' = "delete"
    /\ UNCHANGED <<netVars, now, cursor, turn, began, passVars, local, queued, deleted,
                   exposed, reused, faults, consoled>>

\* delete_inbound stops at the first failure; over AT every row is tried.
DeleteRows ==
    /\ pc = "delete" \/ (pc = "keep" /\ ready = <<>> /\ fps = <<>>)
    /\ \/ TakeOff(ToSet(gone)) /\ UNCHANGED faults
       \/ /\ Fault /\ Kind = "qmi"
          /\ \E n \in 0 .. Len(gone) - 1 : TakeOff(ToSet(SubSeq(gone, 1, n)))
       \/ /\ Fault /\ Kind = "at"
          /\ \E S \in SUBSET ToSet(gone) : S # ToSet(gone) /\ TakeOff(S)
    /\ EndPass
    /\ UNCHANGED <<pending, arrived, now, cursor, keptVars, forgotten, consoled>>

\* Any statement fails: the pass ends with what is done so far.
StatementFails ==
    /\ pc \in {"listed", "enqueue", "prune"} \/ (pc = "keep" /\ (ready # <<>> \/ fps # <<>>))
    /\ Abort
    /\ UNCHANGED <<netVars, now, cursor, keptVars, deleted, forgotten, consoled>>

\* The process stops and starts again.
Restart ==
    /\ Fault
    /\ cursor' = 0 /\ turn' = 1 /\ began' = now /\ pc' = "next"
    /\ exposed' = exposed \cup {pass[fps[k]].row.a : k \in DOMAIN fps}
    /\ pass' = <<>> /\ t' = 0 /\ ready' = <<>> /\ count' = 0 /\ fps' = <<>> /\ gone' = <<>>
    /\ reused' = {}
    /\ UNCHANGED <<netVars, now, keptVars, deleted, forgotten, consoled>>

----------------------------------------------------------------------------
\* The network puts a fragment into a free slot of its module.
Arrive(a, i) ==
    /\ a \in pending /\ slots[Part[a].to][i] = NoRow /\ now <= LastArrival
    /\ LET stamp == IF a \in Unstamped THEN NoStamp ELSE now
       IN  /\ slots' = [slots EXCEPT ![Part[a].to][i] = [a |-> a, at |-> stamp]]
           /\ arrived' = [b \in DOMAIN arrived \cup {a} |-> IF b = a THEN stamp ELSE arrived[b]]
    /\ pending' = pending \ {a}
    /\ UNCHANGED <<read, now, cursor, turn, began, pc, passVars, keptVars, histVars, faults,
                   consoled>>

\* A console takes the arbiter like everybody else: not during a QMI probe.
ConsoleMay(m) == consoled < MaxConsole /\ (pc = "next" \/ Kind = "at")

\* AT+CMGR marks a row read.
ConsoleReads(m, i) ==
    /\ ConsoleMay(m) /\ slots[m][i] # NoRow /\ i \notin read[m]
    /\ read' = [read EXCEPT ![m] = @ \cup {i}]
    /\ consoled' = consoled + 1
    /\ UNCHANGED <<slots, pending, arrived, now, cursor, turn, began, pc, passVars, keptVars,
                   histVars, faults>>

\* AT+CMGD: the operator deletes a row.
ConsoleDeletes(m, i) ==
    /\ ConsoleMay(m) /\ slots[m][i] # NoRow
    /\ slots' = [slots EXCEPT ![m][i] = NoRow]
    /\ read' = [read EXCEPT ![m] = @ \ {i}]
    /\ reused' = IF m = turn /\ pc # "next" THEN reused \cup {i} ELSE reused
    /\ consoled' = consoled + 1
    /\ UNCHANGED <<pending, arrived, now, cursor, turn, began, pc, passVars, keptVars, deleted,
                   exposed, forgotten, faults>>

Tick ==
    /\ now < MaxTime /\ now' = now + 1
    /\ UNCHANGED <<netVars, cursor, turn, began, pc, passVars, keptVars, histVars, faults,
                   consoled>>

PollStep == \/ ListQmi \/ ListAt \/ Settle \/ KeepLocal \/ EnqueueSms
            \/ RecordIngested \/ Prune \/ DeleteRows

SmsNext ==
    \/ PollStep \/ ProbeFails \/ ReadFails \/ StatementFails \/ Restart \/ Tick
    \/ \E a \in Arrivals, i \in Index : Arrive(a, i)
    \/ \E m \in M, i \in Index : ConsoleReads(m, i) \/ ConsoleDeletes(m, i)

SmsSpec == SmsInit /\ [][SmsNext]_smsVars

\* The poll thread loops for ever and the clock moves on
\* (one of PollStep is enabled in every state, so that weak fairness says no less).
FairSmsSpec == SmsSpec /\ []<><<PollStep>>_smsVars /\ WF_smsVars(Tick)
----------------------------------------------------------------------------
\* The types of the module's storage, the pass under way and the tables.
SmsTypeOK ==
    /\ slots \in [M -> [Index -> [a : Arrivals \cup {"none"}, at : -2 .. MaxTime]]]
    /\ read \in [M -> SUBSET Index] /\ pending \subseteq Arrivals
    /\ DOMAIN arrived \subseteq Arrivals \ pending
    /\ now \in 0 .. MaxTime /\ cursor \in 0 .. Windows - 1 /\ turn \in M
    /\ pc \in {"next", "listed", "keep", "enqueue", "prune", "delete"}
    /\ \A p \in DOMAIN pass : pass[p].slot \in Index /\ IsReceived(pass[p].row)
    /\ ToSet(fps) \cup ToSet(gone) \subseteq DOMAIN pass
    /\ faults \in 0 .. MaxFaults /\ consoled \in 0 .. MaxConsole

\* What the agent deletes from a module was queued for the cloud before
\* (main.rs, settle.rs: store, then delete): a row of a pass that failed, a
\* fragment still waiting for its siblings or a message of the operator's own
\* is never taken.  Two exceptions.  A slot the console emptied while an AT
\* pass was under way: the pass deletes by index whatever is there by then.
\* And a delivery that is the very copy, stamp included, of another one that was
\* queued: seen_before counts the copies on the module against those ever
\* stored, so that a copy which comes after the first has been deleted is
\* deleted in its place and never queued.
NothingUnstored ==
    \A d \in deleted :
        \/ d.excused
        \/ \E q \in queued : \E s \in DOMAIN q.rows :
              \/ q.rows[s].a = d.a
              \/ q.rows[s].a # d.a /\ Fingerprint(q.rows[s]) = d.fp

Kept(part) == UNION {{<<q.n, s>> : s \in {i \in DOMAIN q.rows : Part[q.rows[i].a] = part}} :
                     q \in queued}

\* A fragment is queued once per delivery (inbox.rs, seen_before), also when
\* its delete failed and it is met again, unless a pass ended between the queue
\* and the ledger or the ledger has been pruned of it meanwhile.
StoredOnce ==
    \A a \in DOMAIN arrived :
        LET twins == {b \in DOMAIN arrived : Part[b] = Part[a]}
        IN  \/ Cardinality(Kept(Part[a])) <= Cardinality(twins)
            \/ twins \cap exposed # {}
            \/ \E fp \in forgotten : fp[1] = Part[a]

\* A message with a part missing is released only when everything of it that
\* arrived is older than the grace period (concat.rs, FRAGMENT_GRACE_MS).
WaitsForAll ==
    \A q \in queued :
        LET stamps == {q.rows[s].at : s \in DOMAIN q.rows} \ {NoStamp}
        IN  q.missing # {} => stamps # {} /\ \A s \in stamps : q.at - s > Grace

\* These together with the types.
SmsInv == SmsTypeOK /\ StoredOnce /\ WaitsForAll

OnModule(a) == \E i \in Index : slots[Part[a].to][i].a = a

\* "With three of them and eight windows the counter is coprime with the
\* rotation, so each module still walks the whole store" (SMS_SWEEP_CURSOR).
QmiModules == Cardinality({m \in M : Modems[m] = "qmi"})
WalksWholeStore == \A d \in 2 .. Windows : Windows % d = 0 => QmiModules % d # 0

\* The module's storage is emptied of received messages in the end (concat.rs:
\* it is never emptied by anyone else, and a full one accepts nothing): each row
\* leaves as a part of a whole message or after the grace period, also one that
\* somebody marked read and that only the sweep can see - if the number of
\* QMI modules has no common divisor with the number of windows, as the comment
\* on the shared cursor supposes of the bench.
StorageDrains ==
    WalksWholeStore =>
        <>[](\A a \in Arrivals \ Unstamped : Part[a].total > 0 => ~OnModule(a))
=============================================================================
