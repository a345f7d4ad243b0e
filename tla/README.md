# A TLA+ model of vodoge-edge

vodoge-edge is an agent that runs beside a set of cellular modems: it polls them,
collects their messages and states, uploads everything through a sequenced queue
to a cloud, and executes commands the cloud pushes. This directory models the
parts in which ordering, crashes and concurrency decide whether it is correct.

`PROJECT.json` lists components, runs, mutants, the map from definitions to
source lines, findings, hazards and theorems. Paths below are relative to `src/`.

## 1. Inventory

| Part | State | Operations | Interacts with |
|---|---|---|---|
| Uplink journal, `edge-uplink/src/lib.rs` | records by sequence, cursor, loss markers, recovery hint | append, declare_loss, accept_gap, observe_ack, rehydrate | held by the outbox |
| Durable outbox, `edge-store/src/outbox.rs` | the journal in memory; tables of records, cursor and gaps | append, evict, observe_ack, from_store | every thread that reports something; the uplink worker |
| uplink-rescue, `edge-store/src/bin` | the same tables | renumber above the cloud's cursor | run while the agent is down |
| Session and worker, `edge-uplink/src/session.rs`, `worker.rs` | phase, replay cursor, last rewind, idle time | start, on_inbound, poll, on_disconnect | socket, cloud, outbox |
| Command executor, `edge-agent/src/lib.rs` | commands by phase, command journal, capability matrix | deliver, execute, restore | uplink thread, store, outbox, modem port |
| Modem registry, `edge-bin/src/main.rs`, `edge-core/src/retro.rs` | adopted modems with their gate marks, retirements, inventory, candidates, matrix authority | adopt, remove, create, reconfirm, enforce | panel, commands, poll thread |
| SMS ingest, `edge-bin`, `edge-modem/src/inbox.rs`, `at_inbox.rs` | ledger of ingested messages, fragments on the module, cursor of the sweep | list, assemble, enqueue, record, prune, delete | modem, store, outbox |
| SMS submission, `edge-bin`, `edge-modem/src/cdc_wdm.rs`, `at_sms.rs` | QMI clients and transactions, the serial dialogue, receipts on the module | send_sms, transact, collect_status_reports | module, arbiter |
| Arbiter and lease socket, `edge-modem/src/at.rs` | one flag and two counters under a mutex | acquire, release, serve_lease | poll, commands, panel, `vowifi` |
| Finding modules, `edge-bin`, `edge-modem/src/usb.rs` | node by IMEI, USB position by IMEI | probe, confirm, reset, recover | kernel, store |
| Radio operations, `edge-bin`, `edge-modem/src/session.rs` | functionality and mode, network selection, USSD dialogue | restart, rotate, re-register, select, type AT | module, arbiter |
| Data connection, `edge-bin`, `edge-modem/src/wwan.rs` | sessions, interface address, route, rule, card policies | start_data, stop_data, push of policies | kernel, module, store |
| eUICC, `edge-modem/src/es10c.rs`, `es9p.rs`, `session.rs` | profiles, notifications owed, the session with an SM-DP+ | download, enable, disable, delete, list, notify | card, SM-DP+, cloud |
| Poll, inventory and alerts, `edge-bin`, `edge-core/src/alert.rs` | inventory rows, what was seen in this process, throttle by code | poll_modems, upsert, raise_alert | hardware, store, outbox |
| Capability rules, `edge-core` | matrix, policies of cards, inventory row | query, resolve, bind_gates, plan | commands, panel, enforcement |
| Enrolment, `edge-uplink/src/enroll.rs` | key, certificate, device id, one-time code | ensure, write_identity, device_id, dial | disk, cloud, a person |
| Proxy, `edge-proxy` | listeners, connections, counters and a baseline | apply, stop, restart, probe, drain_traffic | commands, poll, clients |
| VoWiFi probe, `vowifi` (Go) | ladder of exchanges, budgets, calls to the card | exchange, authenticate, reap | ePDG, lease socket |
| Voice bridge, `voice` (Go) | the one call with its sockets, goroutines and counters; a delay line | offer, hangup, shutdown, media pumps | browser, relay, stand-in IMS peer |
| Panel, UI, codec, update guard | tokens, log ring | HTTP, rendering | browser |

What is hard here, and therefore what the models are about:

- **Crashes between two writes.** The uplink tables are written one statement at
  a time; commands pass through a journal with three phases; a message is queued,
  recorded and deleted from the module in three steps.
- **Several threads.** Uplink, poll and panel threads share a store, an outbox
  and a matrix, each behind its own lock, and read one before they act on another.
- **An unreliable cloud link.** Acknowledgements are cumulative with holes,
  connections break in every phase, commands are pushed again until answered.
- **Peers that answer in their own time.** A module acts late, twice or on a
  request whose answer is lost; it leaves the bus and comes back as another
  device node; an ePDG repeats itself; a card takes seconds.
- **Irreversible actions.** A text message costs money; a retired modem is no
  longer managed. Both must survive stale data, failed writes and clock changes.

What makes each part correct: the journal forgets no sequence and gives none two
fates; what was queued stays on disk until the cloud has it; the link discards
only what is stored and drains in the end; a command takes effect at most once
and gets one truthful result; no modem is retired before its grace period or by a
matrix nobody pushed. A received message is queued before it is deleted and
queued once; a sent one goes on the air once; what takes a module off the network
puts it back; no command that confirms whom it talks to reaches the neighbour of
the module it is meant for; the report names the whole fleet; a refusal names what would lift it.

## 2. Modules

| Module | Models | Built on |
|---|---|---|
| `UplinkState` | the journal, one action per method | |
| `DurableOutbox` | the journal in memory and its tables, one step per SQL statement; the rescue tool; an external cloud | `UplinkState` |
| `UplinkLink` | session, worker, socket and uplink thread; an external cloud | `UplinkState` |
| `CommandExecutor` | delivery of commands, command journal, matrix, restart | |
| `ModemRegistry` | adoption, poll pass, enforcement, matrix authority | |
| `SmsIngest` | both collectors, reassembly, ledger, deletion | |
| `SmsSubmit` | one message over QMI or AT, late answers, receipts | |
| `LeaseQueue` | abstract: one holder, authentications before the rest | |
| `ModemArbiter` | mutex, condition variable, counters, lease socket; implements `LeaseQueue` | `LeaseQueue` (INSTANCE) |
| `ModemPorts` | which module answers, resets, USB positions | |
| `RadioControl` | restart, rotation, re-registration, USSD | |
| `DataPlane` | sessions, kernel interface, card policies | |
| `EsimCard` | profiles, downloads, notifications, inventory | |
| `SupportRules` | matrix, strategies, plans, gates, routers | |
| `FleetPoll` | the pass, inventory rows, alerts, the report | |
| `ProxyManager` | listeners, connections, accounting | |
| `IkeProbe` | the ladder of exchanges, EAP-AKA, the card's calls | |
| `Enrolment` | files of the identity, the code, dialling | |
| `EchoLine` | the ring of the stand-in peer's echo, against a reference | |
| `VoiceBridge` | requests, the call they put up and take down, its media | `EchoLine` |
| `UsimAka` | the card's authentication down to the bytes of its answer | |
| `AtConsole` | the AT page, what it asks about and holds back, its requests and the relay | |
| `UplinkStateProofs`, `CommandExecutorProofs`, `DurableOutboxProofs`, `SmsIngestProofs` | theorems, see section 4 | the modules they name |
| `LinkProofs` | theorems about `UplinkLink` | `UplinkLink`, `UplinkStateProofs` |
| `AccessProofs` | theorems about the lease, probe, submission, enrolment and voice | `ModemArbiter`, `IkeProbe`, `SmsSubmit`, `Enrolment`, `VoiceBridge` |
| `HostProofs` | theorems about the rules, the poll, the proxies, the card's authentication and the console | `MCHost` |
| `ModemsProofs` | theorems about modules, cards, connections and the registry | `ModemPorts`, `EsimCard`, `RadioControl`, `DataPlane`, `ModemRegistry` |
| `MCJournals`, `MCAccess`, `MCModems`, `MCHost` | several modules in one run, see section 3 | the modules they name |
| `MCDurableOutbox`, `MCUplinkLink`, `MCSmsIngest` | symmetry sets and constants for TLC | the modules they name |

### UplinkState

The variables are the fields of `struct UplinkState`. Lists of ranges become sets
of sequences, payloads are left out. A refused call is a disjunct that changes
nothing. `MaxSeq` stands for `u64::MAX`, so that exhaustion is reached.

### DurableOutbox

`rows`, `cursor`, `gap_rows` are the tables; `op` is the operation in progress
(the outbox is behind one mutex). Faults are chosen per run: `stop` (between
operations), `torn` (between two statements), `store` (a statement fails and the
operation returns, leaving memory ahead of disk). `accepted`, `damaged` are
history: what an append took in, whether an operation was cut short since the
last repair, and whether one ever was (`cut_short`: the alarm is then late). The cloud stores in order and acknowledges any prefix;
`CloudStart` lets it hold sequences of an earlier installation.

### UplinkLink

Two FIFO channels per connection, a session phase (`Resuming`, `Live`,
`Backoff`), `replay_through` and `gap_resent_from` of the worker, and an idle
counter in read timeouts. The cloud stores records out of order, may receive one
and fail to store it (`MaxDrops`), acknowledges with holes, and may close, refuse
or vanish (`MaxBreaks`, `VanishPhases`). It answers within a read timeout
(`Prompt`) except for so many times (`Late`, counted with the breaks). Command
results are appended and sent at once, past the replay window, as `handle_command`
does; the executor or the append may fail, and then nothing is sent.

### CommandExecutor

One delivery is a sequence of steps: record, decide (expired?), mark executing,
execute, store the terminal result, publish the matrix and send the receipt,
queue the result, send it. A restart may fall between any two; a journal write,
the matrix save or a socket write may fail. All commands that touch a modem
behave alike (`port`); `update_capability_matrix` and `self_update` are kinds of
their own.

### ModemRegistry

The tables of adopted modems, retirements, inventory and candidates, the stored
matrix, the executor's and the published copy of it, and its authority. A matrix
is the set of modems it admits. A poll pass probes, clones the matrix and then
enforces under one store lock (`Probe`, `CloneMatrix`, `Enforce`); operators and
pushes interleave with those steps. Reconfirmation reads and writes under two
locks. Ages are counted in ticks; they move between passes only, because a pass
judges by the time it took at its start. `Retires`, `streak`, `stood`, `alarmed`,
`pushed`, `unpublished` are history for the properties; `alerts` is what the last
enforcement raised. Adoption dates are not modelled.

### SmsIngest

The poll thread is one process over a table of modules, QMI and AT: list,
settle, keep the local copy, enqueue, record, prune, delete, each a step after
which the process may stop or the statement fail. The network fills free slots in
between, the console reads and deletes slots while the thread does not hold the
arbiter. An arrival is one delivery of one fragment; `Part` says what it carries,
so a second delivery of the same fragment is another arrival with the same
contents. A storage wider than one sweep (`Window` below `Slots`) makes the
sweep's cursor matter, which all QMI modules share; a storage that cannot be listed
and a slot that cannot be read are skipped. `Grace` is the grace period of fragments.

### SmsSubmit

The arbiter makes the agent sequential; the module is not. Each QMI session
allocates a client, asks, and may be closed by a timeout while the answer is still
to come; the answer then stays readable on the node and meets the next session.
`air` counts how often a message was submitted. Serial ports answer with a prompt,
an error, or nothing. Receipts arrive between the listing and the deletion.

### ModemArbiter and LeaseQueue

An action of `ModemArbiter` is one critical section or one notification; threads
wake for no reason as well. The lease socket's clients connect, ask with priority
`Aka` and may be gone when their turn comes. `LeaseQueue` says what that is meant
to be: one holder, and no ordinary caller let in while an authentication waits.
The refinement maps the holder to the thread that is past `acquire` and the two
sets of waiting callers to those between their first look and their turn; waiting,
waking and notifying are stutters. `KeepsPromise` is `LeaseQueue`'s specification
under that mapping.

### ModemPorts, RadioControl, DataPlane, EsimCard

What runs under one lease is one action in `ModemPorts`; `RadioControl` and
`EsimCard` take it step by step where another caller can come in between or an
exchange can fail. The module is external: it may refuse, act late, act and lose
the answer, move to another position. In `ModemPorts` a module has two lines, QMI
and AT, and either may be silent alone; `start_data` is an operation of its own
(`OpensDataSession`), since it does not ask who is at the node. In `RadioControl`
`pending` is the queue of modes the module has taken and not yet acted on; requests
and readings come whenever the code sends them, so a reading may be older than a
request that was accepted before it. In `DataPlane` the kernel's interface
(address, route, rules) is the state and each `ip` command a step that may fail,
the tolerant flush included; a session knows on whose interface it was opened;
`troubled` marks interfaces whose failed undoing was reported, that a stop left
behind or that a second session moved away from; a push notes whether the modules
could be listed. In `EsimCard` `owed` and `heard` are the notifications on the card
and at the server, `listing` is the last inventory sent beside what the card held.

### SupportRules, FleetPoll, ProxyManager

`SupportRules` keeps the pure rules as operators (`Query`, `Resolve`, `BindGates`,
the routers) over a small state: the matrix in force, card policies, the inventory
row, the cards in the slots, which change at different times. A poll goes over QMI,
where a card that could not be read is written as an empty slot, or over AT, where
it is kept; `last` and `blind` are history: the card a poll last saw, and whether
one has failed to see it since. `FleetPoll` is the
pass, one step per exchange; every look-up in the registry may fail
(`IsManaged`), each failure counted as an event; `AlertsAccounted` compares the throttle with the
occurrences nobody was told of. `ProxyManager` has the executor, the listeners'
tasks and the poll as three processes; a connection is one unit of traffic.

### IkeProbe, Enrolment

`IkeProbe` keeps request and answer ids, the age of a datagram and which keys the
peer knows; cryptography is the predicate that an answer is signed with keys of
this exchange. The budgets of the code are its constants. `Enrolment` has the
files as variables, one step per atomic rename, and a number that ties together a
code, the device, its key and its certificate.

### UsimAka

One challenge is `usim_authenticate`, one step per APDU. `selected`, `trait` and
`sqn` are the card's (external): which application the channel is on, how this
card words its answers, and the sequence number it has accepted. An exchange may
break off before or after the card has worked and its answer may come with the
next command (`stale`). The bytes of a body are modelled, since `classify_body`
tells answers apart by them; the lengths of the fields are constants.

### AtConsole

The page of the panel (`mode`, `input`, `history`, the transcript), the dialogs of
`at_guard` and the reading of a command by `at_policy`, which the relay shares. A
command is a sequence of segments with a name, a form and arguments; a form is a
question, a setting, a setting with a blank before the `=`, or a bare command.
`Disrupts` is what the module makes of a segment, apart from what `at_policy` does;
that its tables name every command that changes state is an assumption
(`TablesAssumption`). Requests are
answered in any order or lost before or after they had effect, while the operator
changes endpoint and module, with or without a line in the box. `ticked`, `paired`
(the endpoints chosen for a line) and `reached` are history.

### VoiceBridge and EchoLine

`have[c]` is what exists of call c: sockets and installed targets, in the order of
`NewCall`, one step each, any of which may fail. Requests are goroutines that hold
`app.mu` as the code does (an offer throughout, a hangup only to take the call
out). A packet is a count on one of the hops; `counts` are the counters of `Peer`
and `Loopback`. The run has the two extremes of the budgets: three requests
without media, and one call with two packets. `EchoLine` numbers the samples and
compares each frame read from the ring with the same window of all that was said.

## 3. Runs

There are more modules than distinct instances worth keeping: modules that share
no state and run in the same setting are put into one run. There `part` says which
module a behaviour is of; the others stay in an initial state. A run is then the
union of the runs of its modules, not their product, and a fairness condition
applies to the part it is of.

| Run | What it shows | Bounds |
|---|---|---|
| `journals` | `UplinkState`: `UplinkInv`, `RecordsLeaveAccountedFor`, `SequencesStable`. `CommandExecutor`: `AtMostOnce`, `OneResult`, `TruthfulResult`, `MatrixPublished`, and `ResultArrives` under fairness | 4 envelopes for 3 sequences (one append meets the exhausted counter), 2 gaps (one pending while another is accepted); a port command and a matrix command, 2 faults of 4 kinds |
| `outbox` | `NoLoss`, `CloudMatches` through torn operations, failed statements, restarts and repairs; `OutboxInv` (types, disk agrees with memory, acknowledgements accepted, overflow signalled) until an operation is cut short and again after a repair | 3 envelopes, capacity 1 (two over, Protected ones alone or beside an evictable one), warn stride 2, 4 sequences (one for renumbering) |
| `outbox_torn_append` | violation: a stop inside one append leaves a journal that no start opens | 3 envelopes, only torn operations |
| `outbox_rebuilt` | violation: the cursor of an earlier installation deletes records | no faults, cloud already at 1 |
| `link` | `LinkInv` (what is discarded is stored, what counts as sent was sent on this connection, the window); `Drained`, `GapClosesInWindow`, `DeadLinkDropped` under fairness | window 2 below 3 records, 2 drops, of two records or of one and its resend, 2 breaks or late answers, one command, cloud at 1 |
| `link_gap_command` | violation: a command result that overtakes a record, and one drop, leave a hole for ever | 1 command, 1 drop |
| `registry` | `RetiredAfterGrace`, `PushRaceRetiresNone`; `RefusedGoes` under fairness | 1 modem (modems share nothing but the pass), matrices with and without it, grace of 2 ticks and 3 passes, 2 faults |
| `registry_unpublished` | violation: a matrix that is stored and not published lets the built-in one retire modems | the same, 1 fault |
| `sms_ingest` | `NothingUnstored`, `SmsInv` (types, queued once, long messages wait), `StorageDrains` under fairness | 3 QMI modules and an AT one, of 2 slots, windows of 1 (so the numbers of modules and windows are coprime, as on the bench), a two-part message with a repeated part, a message never whole, an own one, 1 fault, 1 console action |
| `access` | arbiter: `FlagsAgree`, `KeepsPromise` (the refinement), `AkaServed`. IKE: `IkeInv`. Submission: `SubmitInv`, `SessionsStayInStep`. Enrolment: `MachineEnrols` (with `ServingIdentityKept`). Voice: `VoiceInv` (nothing leaks, one call, targets before media, packets accounted for, the echo is the reference). `WaitsEnd`: the probe and the voice requests | 2 local threads and 3 clients for 2 places; 2 ePDG addresses, budgets of 1 to 3 rounds, all at their limits; 2 messages, 1 fault; 3 stops, codes enough to recover from each; 3 requests for 2 calls and a signal, or one with 2 packets; a ring of 4 samples, frames of 2, delays that fit, just fit and do not |
| `modems` | `RightModule`, `ResetSparesWorking`; `ComesBack` (with what a restart reports); `DataAsTold`; `CardToldWhole` | 2 modules of one product, 3 positions for 2 nodes, 2 moves or silences of a line; 2 radio operations by 2 callers, 2 requests a module has yet to act on (down and up again); 2 QMI modules, which can be taken for each other, and an AT one, a card, 2 addresses, 3 commands; 4 profiles of which the lists hold 2, 2 card operations |
| `host` | `AnswersHold` (the rules: a refusal names what would lift it, what is withheld stays withheld, a plan keeps the veto, no verdict rests on something unread; the card: what is reported of an authentication is what the USIM said); `ReportIsTheFleet`, `AlertsAccounted`; `TrafficNotOvercounted`; `NothingByAccident` (the AT console) | 4 documents (accepted, too new, not a number, contradicting itself), 3 cards, 2 families, 3 pushes, swaps or polls; 2 modules, one of which begins with the card and the other with an empty slot, 2 passes, 2 events, among them registry look-ups that fail (two are what it takes to leave a module out); one proxy with 3 settings, 2 operations, 2 connections; RES of 1 or 2 bytes, 2 challenges, 1 card event; AT lines with a chain and a blank before `=`, and a code, 4 keys, 2 sent, a transcript and a history of 1 |

`CHECK_DEADLOCK FALSE` stands where a finite supply of envelopes, commands or
faults ends the behaviour.

Every property of a passing run has a mutant: a variant of a mapped definition
with a plausible mistake (`...Mutant` in the modules) under which it fails.

### Fairness

- `FairLinkSpec`: the uplink thread reads, handles and reconnects for ever (a
  loop without exit in `uplink_loop`), and the cloud processes what it receives
  as long as it is there. Nothing is assumed of appends, commands or breaks;
  late answers are bounded with the breaks, since a peer that is always late is
  one the idle timeout is right to drop.
- `JournalsSpec` (that of `CommandExecutor`): the cloud goes on pushing unanswered
  commands, the delivery in progress goes on, the outbox drains. Faults are
  bounded and not forced.
- `FairRegistrySpec`: weak fairness of the poll thread's steps, strong fairness
  of the clock, which moves in the pauses between passes; nothing is assumed of
  operators or pushes.
- `FairSmsSpec`: the poll thread takes a step again and again (its loop has no
  exit) and the clock moves on.
- `AccessSpec`: a thread that was notified runs, a holder gives the lease back and
  notifies; the client of the probe and its timers run, whatever the network and
  the peer do; the sessions of the submission go on and the module answers what it
  has taken; the loop of the enrolment goes on, the gateway is there, and a person
  answers the log in the pauses of the loop (strong fairness, because the loop's
  tries come between). Of the voice process only that it takes a step while it can
  (one weak fairness for all its goroutines; requests are finite in number), which
  includes that pion's gathering completes.
- `ModemsSpec` and `HostSpec` have no fairness: their properties are safety.

### What the violations say

1. `append` commits the record and the cursor separately; a stop in between is
   refused by `rehydrate` at every later start, until `uplink-rescue` runs.
2. A rebuilt agent is stopped only while its own count is below the cloud's
   cursor. Once it has queued as much, the old cursor passes for an
   acknowledgement.
3. The worker rewinds to a hole once per head. A command result that overtakes a
   queued record makes that record a hole before it was ever sent; its first
   sending then counts as the one resend. If the cloud fails to store it, it is
   not sent again while the connection lives.
4. The authority of a pushed matrix is raised before the matrix is published. A
   failed journal write in between leaves the two apart until the next command;
   if the link is down that long, in `unbind` mode, modems that the built-in
   matrix does not know are retired.

## 4. Theorems

TLC checks the instances of section 3; the theorems hold for every value of the
constants that satisfies the named assumptions of the modules. A proof module has,
per component, the types, an inductive invariant, one lemma per action and the
theorems. The specifications meant are the ones without fairness, so the theorems
hold of the fair ones as well.

Two things recur. The provers cannot instantiate the library's induction theorems;
where something holds of every number (a set has a least member, a finite set can
be put in order, a recursive function exists and has a type) the proof takes the
least counterexample, whose predecessor is none. And a set that is counted is
counted by the library's `FS_...` theorems, one added or removed at a time.

`UplinkStateProofs` (any envelopes and gaps, any `MaxSeq > 0`): the conjunction
`UplinkInv` of `UplinkTypeOK`, `NothingForgotten`, `OneFate`, `IndexAgrees` and
`HintsUnsettled` is inductive. `NothingForgotten` needs `OneFate` (a record that
leaves must not have been lost as well) and both need the types; the step of
`accept_gap` needs that the cursor moves exactly over the accepted losses it meets.
`RecordsLeaveAccountedFor` and `SequencesStable` follow.

`CommandExecutorProofs` (any commands, kinds and fault bound): `ExecInv` adds to
the types what is known in each phase: a port command in memory or in the journal
before "executing" has not run, a delivery past `mark_executing` has its journal
row, whatever was reported equals the stored result. From it `AtMostOnce` (the row
is written before the port is touched, and no path leads from "executing" back to
execution), `OneResult`, `TruthfulResult`, `AcceptedOnce`, and `MatrixPublished`.

`DurableOutboxProofs` (any envelopes, capacity and faults; the cloud starts empty,
`CloudStart = 0`, without which `outbox_rebuilt` refutes them): `SafetyInv` relates
rows, the journal in memory, the operation in progress and what the cloud stored,
statement by statement, and gives `NoLoss` and `CloudMatches`; `AgreementInv`
(tables and memory agree but for what the present operation has not yet written, no
holes, the alarm) gives `OutboxInv`.

`LinkProofs` (any window, timeout, number of records, breaks and drops): `LinkIInv`
adds to `LinkInv` that the acknowledgements on the wire are true of the cloud, that
retained records have no holes and that the replay cursor is not above what was
given out. `LinkUsesTheJournal` is a refinement: every step of the link is an
operation of `UplinkState` or leaves the journal alone.

`AccessProofs`: `ArbiterInv` (flag and counters are the truth about the threads)
gives `FlagsAgree` and the refinement `KeepsPromise`, one step of `LeaseQueue` or a
stutter per critical section. `ProbeInv` (what the peer signed, which keys were
earned) gives `IkeInv`. `WireInv` and `ReceiptInv` (where an answer that is still to
come may be read, and by whom) give `SubmitInv`. `ServingIdentityKept` follows from
the order of the writes of an enrolment. `CallInv`, `MediaInv` and `EchoInv` give
`VoiceInv`; the echo is proved for every ring that has room for a frame
(`EchoAssumption`).

`HostProofs`: `FleetInv` (what the pass still has to visit and what it has noted)
gives `ReportIsTheFleet` and `AlertsAccounted`; `ProxyInv` (the baseline of an
instance is covered by the counters it was taken from) gives
`TrafficNotOvercounted`. `FleetInv` has to say of each module that answered in
the pass, and for which the registry was read then, that a snapshot names it and it
is not among the missing (`AnswersStand`). `ConsoleInv` gives `NothingByAccident`: every line the page holds,
in the box, the draft or the history, was put there by hand for the endpoint it
would go to (`ByHand`). `AnswersHold` has
two parts. `RulesIInv` (the store's row for a card holds what was last pushed for
it, or was made unreadable; the row of a module names the card a poll last saw in
it, or that poll was blind, `LastStands`) gives that a withheld operation stays refused; the rest
of `RulesInv` follows from the definitions, for any documents, cards and labels.
`AkaIInv` says that an AUTHENTICATE is sent to the USIM, or to a card that
re-initialised under it, which is then the excuse of what follows. That the answer is read as
it was meant is a chain of lemmas about byte sequences: filler in front is stripped
(`BodyStripped`), a TLV is read back in its short and its long form
(`WrappedRead`), a wrapped body is never taken for bare fields (`WrappedIsNoRes`),
bare fields are read back with and without a Kc and whatever filler is behind them
(`FieldsParse`), so that `classify_body` undoes what the card put together
(`KeysRead`, `AutsRead`). `AkaAssumption` bounds the lengths as the code's constants
do: a field fits the short form of a length, and a run of all of them is longer
than any RES, which is what keeps the two layouts apart.

`ModemsProofs`: `PortsInv` (modules and positions are one to one, from
`PortsAssumption`) gives `RightModule`, for the operations that confirm the IMEI,
and `ResetSparesWorking`, for modules that answer on AT; `EsimInv`
`CardToldWhole`; `RadioInv` (who holds a module alone, what is owed to it, and
`ReadingStands`: a module read without open requests is still as it was read)
`ComesBack`; `DataInv` `DataAsTold`; `RegistryInv` (a countdown is as long as its
marks say and every race was paid for by a fault) `RetiredAfterGrace` and
`PushRaceRetiresNone`.

`SmsIngestProofs` (any modules, slots, fragments, faults and console):
`SmsWorkInv` says of the pass under way that every position to be entered into the
ledger or deleted was queued, that it is where it was listed unless the console
emptied its slot, and that the messages still to be kept are made of such positions
(`AssembleIs`, the lemma about reassembly); of the ledger, that each row is of a
queued fragment. The last is what makes it right to delete what was "seen before".
It gives `NothingUnstored` and the part `WaitsForAll` of `SmsInv`.

The part `StoredOnce` counts, so it needs books. `BookInv` says that what is on a
module and what was listed arrived there and is there once (`RowsAccounted`,
`PassAccounted`), that reassembly puts a position into one message only
(`WorkApart`, from the lemma `AssembleApart`), that the ledger has one row per
fingerprint (`OnceEach`), and that for each fingerprint the books balance
(`Balanced`): the fragments queued are no more than the ledger's count plus those
this pass queued and has still to enter, and no more than were delivered, as long
as no pass with that fingerprint ended in between and the ledger was not pruned of
it; and for what this pass still has to queue there is room among the deliveries.
The room is what `seen_before` provides (`RoomForNew`: of the listed copies of a
fragment the first n are old, n being the ledger's count, and the rest are no more
than the deliveries not yet entered). The stamps are then summed over
(`CountedByKind`), which gives `SmsInv` whole (`StoredOnceEach`).

Only model-checked:

- every liveness property (`Drained`, `GapClosesInWindow`, `DeadLinkDropped`,
  `ResultArrives`, `RefusedGoes`, `StorageDrains`, `AkaServed`, `WaitsEnd`,
  `SessionsStayInStep`, the part `EnrolmentRecovers` of `MachineEnrols`): outside
  the prover's reach, like ENABLED.

## 5. Observations without a run

Seen while modelling; they are left out of the runs or made exceptions of the
properties, as said in the comments there. A reference after "cf." is to a comment
in the code that states the opposite or the intent.

- A torn `observe_ack` leaves a hole below the first row; every later
  acknowledgement is then refused (`OutboxInv` is stated for undamaged
  journals). `uplink-rescue` is the remedy, but it refuses the cursor 0
  (`uplink-rescue.rs:63-67`), which a torn first append would need.
- After a failed statement the journal in memory is ahead of the disk and the
  process goes on (`outbox.rs:121-122`).
- A queue that falls below the limit by acknowledgements and crosses it again can
  find the throttle of the overflow alarm still set (`outbox.rs:354,390`).
- An eviction resets the throttle (`outbox.rs:381`) though Protected records alone
  may still exceed the limit, so the next Protected append alarms again; after the
  repair of a journal over its limit the alarm waits for the next append.
- A peer that vanishes while the session is `Resuming` is never noticed: the idle
  timeout is looked at in `Live` only (`session.rs:260-266`). `link` lets it
  vanish in `Live` only.
- The last record of a queue that the cloud drops leaves no hole, and is not sent
  again while the connection lives (`Drained` excepts dropped records).
- A hole whose resend is dropped too stays open until the connection ends, since
  `gap_resent_from` suppresses every further rewind to it (`worker.rs:80-83`);
  `GapClosesInWindow` excepts records dropped twice.
- The inventory that some commands send after their result (`main.rs:10962-10972`)
  is one more record that overtakes the replay; in `UplinkLink` it is an ordinary
  append.
- After a rewind more than a window of records can be on the wire at once
  (`worker.rs:40,47`); `LinkInv` is about the replay cursor.
- `start` does not reset the replay cursor (`worker.rs:164-179`); `edge-bin`
  builds a new worker per attempt, so this does not show.
- `update_capability_matrix` runs again after a restart, since only port commands
  are marked executing (`edge-agent/src/lib.rs:1063-1118`); it is idempotent.
- A pass that cannot judge does not advance the count of passes, but the clock
  of the countdown runs on, since it is `now - since` (`retro.rs:160-162,260`).
- A second pushed matrix that cannot be stored is judged by under the authority
  of the first (`main.rs:1664-1672` says that must not be).
- `create_modem` leaves a retirement row, and a second retirement keeps the date
  of the first, so that a later adoption takes an old date (`main.rs:4225-4227`).
- `uplink_ever_resumed` is set when the resume has been sent, not when the cloud
  has answered it (`main.rs:10855-10857`).

Enrolment and identity:

- A stop or a failed write between the certificate and the device id leaves a
  machine that counts as enrolled, falls back to the compiled-in id, and never
  dials again (`enroll.rs:345-351`); the comment above it (`enroll.rs:340-344`)
  says a stop leaves a key without a certificate. `MachineEnrols` excepts exactly
  that state (`IdMissing`).

Messages:

- The AT sweep deletes by index after it has released the port, so a slot the
  console emptied and the network filled again is deleted unread
  (`NothingUnstored` excepts it).
- A delivery identical to an earlier one, stamp included, is taken for one of ours
  whose deletion failed when the first copy was stored and deleted before the
  second was listed: it is deleted and never queued. `inbox.rs:143-147` and the
  test `a_second_copy_of_a_stored_message_is_still_new` call both real; the test
  has both in one listing (`NothingUnstored` excepts a copy of something queued).
- The cursor of the sweep is one for all modules. If the number of QMI modules
  that answer has a divisor in common with the number of windows, a module always
  gets the same windows, and a row marked read in another one stays for ever
  (`main.rs:136-140` counts on three modules and eight windows; a fourth, or one
  that stops answering, breaks it). `StorageDrains` has `WalksWholeStore` as its
  condition.
- Local sequence numbers repeat after 1000 seconds.
- The ledger prunes by age, so the entry of a row that cannot be deleted can go
  before the row does, and the message is queued again.
- A QMI timeout after the request was written is reported as `send_failed`
  (cf. `main.rs:888-901`), though the message may be on the air; a hang-up while a WMS
  client is being allocated is reported as one after the submission.
- Receipts are deleted from the module before they are queued
  (cf. `main.rs:7640-7652`); TP-SRR is always set (`pdu.rs:60`), also in
  the send over AT that reports `status_report_requested: false`; TP-MR starts at 0
  again with the agent.

Radio, data, card:

- `start_data` opens the node remembered for a module and does not confirm the IMEI
  (`main.rs:414-466`), unlike `with_client`: after a renumbering the session and the
  address are another module's. `RightModule` leaves it out; `DataPlane` lets the
  session open on any QMI module. A second start after that replaces the session
  and leaves the first interface with its address.
- The census before a USB reset asks over AT only and for 800 ms
  (`main.rs:1073-1108,5212`), so a module that works over QMI and whose AT port is
  busy can be reset in another's place (cf. `main.rs:993-1002`, "answers neither
  QMI nor AT"). `ResetSparesWorking` is about modules that answer on AT.
- `wait_for_full` reads `+CFUN?` at once after the request was accepted
  (`session.rs:2412-2415`). A module that has not yet gone down reports 1 and
  `online`, and the restart reports success before the LowPower is carried out
  (cf. `session.rs:1794-1799`). `RestartTruth` excepts a reading taken with requests open.
- `set_radio` over AT does not look at the result code (`main.rs:4602-4639`): a
  refused `AT+CFUN` is reported as done.
- A push of card policies that cannot list the modules
  (`unwrap_or_default`, `main.rs:2501-2507`) stops nobody and reports success;
  `HeldDown` is about pushes that could.
- A tolerant `ip addr flush` that fails leaves the earlier address beside the new one
  (`wwan.rs:119`); `NoGhostLink` asks for one of the addresses.

- The card's policy is looked at before the connection is raised, and an unknown
  card is allowed (cf. `main.rs:3092-3095`); a push that comes in between does not stop
  it. A failed `ip rule del` leaves the rule of an earlier address
  (cf. `wwan.rs:178-182`).
- `configure_apn` writes empty credentials when the first read failed
  (cf. `main.rs:1898-1901`); `set_data_network(false)` does not reach `AT+CGACT=0` for
  a module without QMI.
- Closing the channel or a snapshot after an operation that worked turns it into
  an error (cf. `main.rs:2545-2553`); disable, delete and download send no inventory;
  not every exit of a download cancels the session with the SM-DP+
  (cf. `session.rs:1524-1526`, `es9p.rs:1350-1354`).

Console:

- A reply to a USSD request that comes after the page has moved to another module
  marks a dialogue open there; the panel's `/api/ussd` always cancels the dialogue
  first, though the page tells the operator to send the choice of a menu.
- The probe `AT+QCFG="ims"` of the button row is classified as a write and refused
  without the box.
- `at_policy` reads `AT+CMGD =1` as a question, because the name ends at the blank
  (`at_policy.rs:230-246`), so a setting with a blank before its `=` passes without
  the box (cf. `at_policy.rs:10-14`); `at_guard` skips the blank.
  `MeantOrHarmless` excepts that form.
- The two mode buttons keep the line in the box (`console.rs:469-491`), so an AT
  line can be sent to `/api/ussd` by switching and pressing send. `RightEndpoint`
  counts the switch as the operator's choice.

Fleet and rules:

- A failed read of the ICCID over QMI (`main.rs:7604-7610,7908`) is written as an
  empty slot (cf. `edge-store/src/lib.rs:77-96`, which names that as the bug), so
  what the last push withholds from the card is permitted until it is read again.
  `WithheldStays` excepts exactly that; a poll over AT that could not ask keeps the
  card and is not excepted.
- An `EF_AD` that cannot be read is taken to say two digits (`main.rs:7083-7098`).
  `VerdictIsFinal` rests on `NumberingAssumption`: no card of MCC 460, the one
  country the table of carriers has, names three.
- `is_managed` answers no when the registry cannot be read (`main.rs:5868-5880`). An
  adopted module whose look-up fails as it answers and again as the missing are
  counted is left out of the report; one whose first look-up fails is reported
  offline though it answered. `ReportIsTheFleet` excepts both, and a report with no
  module at all, which the registry's being empty or unreadable gives as well.
- What was seen is forgotten with the process, so a module that is gone since
  before a restart is not reported missing; alerts are throttled by code, so those
  of two modules share one.
- A modem over its grace period whose retirement fails raises no alert in that pass.
- A field that a rule of the matrix leaves out is filled from `[fallback]`;
  `revocation_refusal` looks for the IMEI in the serial row, which never holds one,
  so it does not refuse for an adopted module (`main.rs:6100-6120,6264`); the
  contexts `fill_apn_contexts` reads for a QMI module go into the report, not into
  the store, whose row was written before.

Card authentication:

- `AtPort::drain` empties what has arrived by then. An answer to an earlier APDU
  that comes after the drain and before the reply is read as the reply; `UsimAka`
  has late answers only up to the drain. The two-byte form of a length
  (`aka.rs:671-674`) is read, but no modelled card uses it.

Proxy and probe:

- Connections outlive an aborted listener and keep the modem they were opened
  over, also after the instance has moved (cf. `edge-proxy/src/lib.rs:3-6`,
  `bind.rs:88-91`); a baseline that outlives its counters undercounts; stop and
  then start answers `not_configured`; the probe without an interface goes over
  the host (cf. `probe.rs:66-68`).
- `ExchangeIKE` matches answers by message id, which is 0 for every INIT of a
  ladder: a late answer to the INIT before is taken (cf. `transport.go:384-388`); a
  retry after a challenge has been answered spends a second one
  (cf. `vodoge-ike-probe/main.go:897-900`); a failed dial is recorded as a result
  (cf. `tunnel.go:203-209`). The exchange that follows an Authentication-Reject or an
  AT_AUTS over the budget (`authrunner.go:583-599`) is not modelled: the ladder has
  failed whatever it brings.

Voice:

- A failed offer has already closed the call before it (`vodoge-voice/main.go:148-152`).
- A browser that vanishes does not end its call; the states of the connection are
  only logged (`peer.go:226-231`).
- `Serve` returns when `Shutdown` begins, so the process can end before the shutdown
  goroutine has closed the call (`vodoge-voice/main.go:116-127`).
- A delay within one frame of the ring's four seconds is heard as silence
  (`loopback.go:703-705,737`).

## 6. Not modelled, and why

- **SMS coding, parsers of `edge-core`, QMI TLVs, IKE payloads, ES10
  TLVs, SOCKS parsing.** Functions on bytes: TLC can only enumerate inputs too
  short to be interesting, and the unit tests hold the vectors. The models take
  what they accept or decode as values.
- **Panel and user interface, contract types, frame codec, build scripts.** No
  state of their own that the models lack; what the panel changes is modelled where
  it is stored. The log ring and the token guard are small and sequential.
- **Self-update guard.** The installed `RejectUpdate` keeps its states unreachable.
- **Of the voice bridge**: samples, mu-law, the page and what it reports, RTCP,
  statistics. They decide nothing about a call.
- Of modelled parts: connection ids and the session's own backoff (edge-bin builds
  a worker per attempt), adoption dates (nothing decides by them), a command
  journal that cannot be read at start (the code disclaims at-most-once then), a
  clock set back after the journal was pruned.

## 7. Plan

Done: all modules of section 2 and the theorems of section 4, among them every
safety invariant of the runs that expect to pass. Liveness stays with TLC.
