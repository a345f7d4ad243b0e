----------------------------- MODULE SmsSubmit -----------------------------
(***************************************************************************)
(* One outgoing message on its way to the air, and the two wires it can    *)
(* take: QMI on a cdc-wdm node (edge-modem/src/session.rs, cdc_wdm.rs,     *)
(* lib.rs) and, for a module the agent knows no QMI node of, AT commands   *)
(* on a serial port (edge-modem/src/at.rs, at_sms.rs).  RadioPort::        *)
(* send_sms (edge-bin/src/main.rs) chooses between them, and the poll      *)
(* reads the delivery receipts back.                                       *)
(*                                                                         *)
(* The arbiter (ModemArbiter) lets one exchange run at a time, so that the *)
(* agent is one sequential process here.  What it meets is a module that   *)
(* answers in its own time: the answer to a request that timed out stays   *)
(* readable on the node after the session that asked has been closed.      *)
(* The module, its serial port and the network are external.               *)
(***************************************************************************)
EXTENDS Naturals, Sequences

CONSTANTS ClientId,     \* client ids the module hands out
          MaxSends,     \* bound: messages the cloud asks for
          MaxFaults     \* bound: timeouts, disconnections, indications, restarts

ASSUME SubmitAssumption ==
    /\ ClientId # {} /\ 0 \notin ClientId /\ ClientId \subseteq Nat
    /\ MaxSends \in Nat \ {0}
    /\ MaxFaults \in Nat

VARIABLES
    hasQmi,   \* whether the module has a QMI interface at all
    known,    \* whether Radio::by_imei has a node for it
    onBus,    \* whether the module is attached
    job,      \* what the agent is doing: kind, message, step, open node still current
    session,  \* QmiClient: next transactions, clients, the pending request
    inbox,    \* requests the module has received and not handled
    out,      \* frames readable on the node
    serial,   \* the serial port: bytes in, lines out, at a message prompt
    air,      \* [send -> how often the network took it]
    result,   \* [send -> what the cloud was told]
    receipts, \* status reports: arrived, in the module's SR store, listed by this
              \* pass, ever read, queued
    last,     \* how the last QMI session ended
    faults

submitVars == <<hasQmi, known, onBus, job, session, inbox, out, serial, air,
                result, receipts, last, faults>>

Send == 1..MaxSends
None == "none"

Idle == [kind |-> "idle", n |-> 0, step |-> 0, live |-> FALSE]
NoRequest == [svc |-> None, cli |-> 0, tx |-> 0, msg |-> None, n |-> 0]
NewClient == [ctl |-> 1, svc |-> 1, dms |-> 0, wms |-> 0, pending |-> NoRequest]
Quiet == [in |-> <<>>, out |-> <<>>, prompt |-> FALSE]

SubmitInit ==
    /\ hasQmi \in BOOLEAN
    /\ known = FALSE
    /\ onBus = TRUE
    /\ job = Idle
    /\ session = NewClient
    /\ inbox = <<>> /\ out = <<>>
    /\ serial = Quiet
    /\ air = [n \in Send |-> 0]
    /\ result = [n \in Send |-> None]
    /\ receipts = [arrived |-> {}, store |-> {}, listed |-> {}, read |-> {}, queued |-> {}]
    /\ last = None
    /\ faults = 0

Fault == faults < MaxFaults /\ faults' = faults + 1

-----------------------------------------------------------------------------
(* The wire *)

\* Transaction ids count up from 1 in each new client and skip 0.
NextTransaction(t, bits) == IF (t + 1) % 2^bits = 0 THEN 1 ELSE (t + 1) % 2^bits

\* What each step of a session asks.  A session that sends first makes sure
\* of the module's IMEI, and each service needs a client of its own.
Script == [poll |-> <<"sync", "alloc_dms", "serials">>,
           send |-> <<"sync", "alloc_dms", "serials", "alloc_wms", "raw_send">>]

Request(msg, n) ==
    CASE msg = "serials"  -> [svc |-> "dms", cli |-> session.dms, tx |-> session.svc, msg |-> msg, n |-> n]
      [] msg = "raw_send" -> [svc |-> "wms", cli |-> session.wms, tx |-> session.svc, msg |-> msg, n |-> n]
      [] OTHER            -> [svc |-> "ctl", cli |-> 0, tx |-> session.ctl, msg |-> msg, n |-> n]

Address(frame) == <<frame.svc, frame.cli, frame.tx>>

\* What a transport without the address check would take for the answer.
AnswersMutant(request, frame) == TRUE

\* The response to the request just written: same service, client, transaction.
Answers(request, frame) == Address(request) = Address(frame)

\* PendingTransactions::resolve: the address is pending, and its message agrees.
Resolves(frame) ==
    /\ Address(frame) = Address(session.pending)
    /\ frame.msg = session.pending.msg

-----------------------------------------------------------------------------
(* How a session ends *)

\* describe_send_failure: only a hangup while waiting is told apart.
Describe(error) == IF error = "left_bus" THEN "modem_left_bus_after_submit" ELSE "send_failed"

\* What a failed step of a session is reported as.  The last two steps run
\* inside client.send_sms, the ones before it open and confirm the module.
Reported(error) == IF job.step <= 3 THEN "modem_sync_failed" ELSE Describe(error)

\* Tries the serial port after any failure.
FallsBackMutant(code) == TRUE

\* The AT path is for a module with no QMI node; a refusal is reported.
FallsBack(code) == code = "modem_not_found"

Told(code) == result' = IF job.n = 0 THEN result ELSE [result EXCEPT ![job.n] = code]

\* A send whose QMI part ended in code: over to the serial port, or told.
SendEnded(n, code) ==
    IF FallsBack(code)
    THEN /\ job' = [kind |-> "at", n |-> n, step |-> 1, live |-> TRUE]
         /\ UNCHANGED result
    ELSE /\ job' = Idle
         /\ result' = [result EXCEPT ![n] = code]

FailSession(error) ==
    /\ session' = NewClient
    /\ last' = "failed"
    /\ IF job.kind = "send" THEN SendEnded(job.n, Reported(error))
       ELSE job' = Idle /\ UNCHANGED result

-----------------------------------------------------------------------------
(* QMI *)

\* Radio::path_for, then a handle of its own on the node.
SendSms(n) ==
    /\ job = Idle /\ result[n] = None /\ \A m \in Send : m < n => result[m] # None
    /\ IF ~known THEN SendEnded(n, "modem_not_found") /\ UNCHANGED out
       ELSE IF ~onBus THEN SendEnded(n, "modem_open_failed") /\ UNCHANGED out
       ELSE /\ job' = [kind |-> "send", n |-> n, step |-> 1, live |-> TRUE]
            /\ UNCHANGED <<result, out>>
    /\ session' = NewClient
    /\ UNCHANGED <<hasQmi, known, onBus, inbox, serial, air, receipts, last, faults>>

\* The poll asks every node it can list, whatever by_imei says.
Probe ==
    /\ job = Idle /\ hasQmi /\ onBus
    /\ job' = [kind |-> "poll", n |-> 0, step |-> 1, live |-> TRUE]
    /\ session' = NewClient
    /\ UNCHANGED <<hasQmi, known, onBus, inbox, out, serial, air, result, receipts, last, faults>>

InSession == job.kind \in {"poll", "send"}
AwaitsAnswer == InSession /\ session.pending # NoRequest

\* round_trip: the pending entry, ensure_live, the bounded write.
Write ==
    /\ InSession /\ ~AwaitsAnswer
    /\ LET request == Request(Script[job.kind][job.step], job.n)
       IN IF ~job.live
          THEN FailSession("gone") /\ UNCHANGED inbox
          ELSE /\ inbox' = Append(inbox, request)
               /\ session' = [session EXCEPT
                      !.pending = request,
                      !.ctl = IF request.svc = "ctl" THEN NextTransaction(@, 8) ELSE @,
                      !.svc = IF request.svc = "ctl" THEN @ ELSE NextTransaction(@, 16)]
               /\ UNCHANGED <<job, result, last>>
    /\ UNCHANGED <<hasQmi, known, onBus, out, serial, air, receipts, faults>>

\* The node goes away between ensure_live and the write, which then times
\* out, fails, or notices the hangup while it waits for room.
WriteRaced(error) ==
    /\ InSession /\ ~AwaitsAnswer /\ job.live /\ Fault
    /\ FailSession(error)
    /\ onBus' = FALSE /\ inbox' = <<>> /\ out' = <<>> /\ serial' = Quiet
    /\ UNCHANGED <<hasQmi, known, air, receipts>>

\* ClientRegistry::install: the client of a service is kept for the session.
Install(frame) ==
    [session EXCEPT
        !.pending = NoRequest,
        !.dms = IF frame.msg = "alloc_dms" THEN frame.given ELSE @,
        !.wms = IF frame.msg = "alloc_wms" THEN frame.given ELSE @]

\* The next step of the script, with what the answer gave, or the end of it.
Advance(frame) ==
    IF job.step < Len(Script[job.kind])
    THEN /\ job' = [job EXCEPT !.step = @ + 1]
         /\ session' = Install(frame)
         /\ UNCHANGED <<known, result, last>>
    ELSE /\ job' = IF job.kind = "poll" THEN [job EXCEPT !.kind = "receipts", !.step = 0] ELSE Idle
         /\ session' = NewClient
         /\ known' = (known \/ job.kind = "poll")
         /\ last' = "ok"
         /\ Told("sent")

\* One turn of the loop in CdcWdmDevice::transact, and the check behind it.
ReadFrame ==
    /\ AwaitsAnswer /\ out # <<>>
    /\ out' = Tail(out)
    /\ LET frame == Head(out)
       IN IF frame.ind \/ ~Answers(session.pending, frame)
          THEN UNCHANGED <<known, job, session, result, last>>
          ELSE IF Resolves(frame) /\ frame.ok THEN Advance(frame)
          ELSE FailSession("refused") /\ UNCHANGED known
    /\ UNCHANGED <<hasQmi, onBus, inbox, serial, air, receipts, faults>>

\* Eight seconds without the answer.
Timeout ==
    /\ AwaitsAnswer /\ out = <<>> /\ job.live /\ Fault
    /\ FailSession("timeout")
    /\ UNCHANGED <<hasQmi, known, onBus, inbox, out, serial, air, receipts>>

\* POLLHUP, once the buffered frames are read.
Hangup ==
    /\ AwaitsAnswer /\ out = <<>> /\ ~job.live
    /\ FailSession("left_bus")
    /\ UNCHANGED <<hasQmi, known, onBus, inbox, out, serial, air, receipts, faults>>

-----------------------------------------------------------------------------
(* The module (external) *)

Transmit(n, took) == air' = IF took THEN [air EXCEPT ![n] = @ + 1] ELSE air

Response(request, ok, given) ==
    [svc |-> request.svc, cli |-> request.cli, tx |-> request.tx,
     msg |-> request.msg, ind |-> FALSE, ok |-> ok, given |-> given]

\* The module carries out the oldest request and answers it.  A submit may
\* be refused; a client id is any the module has.
Handle(took, given) ==
    /\ onBus /\ inbox # <<>>
    /\ inbox' = Tail(inbox)
    /\ IF Head(inbox).msg = "raw_send"
       THEN /\ Transmit(Head(inbox).n, took)
            /\ out' = Append(out, Response(Head(inbox), took, 0))
       ELSE /\ took
            /\ out' = Append(out, Response(Head(inbox), TRUE, given))
            /\ UNCHANGED air
    /\ UNCHANGED <<hasQmi, known, onBus, job, session, serial, result, receipts, last, faults>>

\* An indication, which is nobody's answer.
Indicate ==
    /\ onBus /\ hasQmi /\ Fault
    /\ out' = Append(out, [svc |-> "wms", cli |-> 1, tx |-> 1, msg |-> "event",
                           ind |-> TRUE, ok |-> TRUE, given |-> 0])
    /\ UNCHANGED <<hasQmi, known, onBus, job, session, inbox, serial, air, result, receipts, last>>

\* The module leaves the bus: with or without the frames already buffered.
LeaveBus(kept) ==
    /\ onBus /\ Fault
    /\ onBus' = FALSE
    /\ job' = [job EXCEPT !.live = FALSE]
    /\ inbox' = <<>> /\ out' = IF kept THEN out ELSE <<>>
    /\ serial' = Quiet
    /\ UNCHANGED <<hasQmi, known, session, air, result, receipts, last>>

\* A new node: nothing of the old one is readable on it.
ComeBack ==
    /\ ~onBus /\ (job.live \/ ~InSession)
    /\ onBus' = TRUE
    /\ inbox' = <<>> /\ out' = <<>>
    /\ UNCHANGED <<hasQmi, known, job, session, serial, air, result, receipts, last, faults>>

-----------------------------------------------------------------------------
(* The serial port *)

AtCommand == <<"cmgf", "cmgs">>

\* What is left of an earlier exchange is thrown away before a command.
Drain(port) == [port EXCEPT !.out = <<>>]

\* What terminal_code makes of a line the module wrote: a prompt ends an
\* exchange as well, and is not a success.
Succeeded(line) == line = "OK"

AtWrite ==
    /\ job.kind = "at" /\ job.step \in {1, 3}
    /\ IF ~onBus \/ ~job.live
       THEN job' = Idle /\ Told("at_send_failed") /\ UNCHANGED serial
       ELSE /\ serial' = [Drain(serial) EXCEPT
                  !.in = Append(@, [cmd |-> AtCommand[(job.step + 1) \div 2], n |-> 0])]
            /\ job' = [job EXCEPT !.step = @ + 1]
            /\ UNCHANGED result
    /\ UNCHANGED <<hasQmi, known, onBus, session, inbox, out, air, receipts, last, faults>>

\* The wait for a prompt looks for the prompt first, and then submits; any
\* other line that ends an exchange is the answer.
AtRead ==
    /\ job.kind = "at" /\ job.step \in {2, 4, 5} /\ serial.out # <<>>
    /\ LET line == Head(serial.out)
       IN CASE job.step = 2 /\ Succeeded(line) ->
                 /\ job' = [job EXCEPT !.step = 3]
                 /\ serial' = [serial EXCEPT !.out = Tail(@)]
                 /\ UNCHANGED result
            [] job.step = 4 /\ line = ">" ->
                 /\ job' = [job EXCEPT !.step = 5]
                 /\ serial' = [serial EXCEPT !.out = Tail(@),
                        !.in = Append(@, [cmd |-> "pdu", n |-> job.n])]
                 /\ UNCHANGED result
            [] OTHER ->
                 /\ job' = Idle
                 /\ serial' = [serial EXCEPT !.out = Tail(@)]
                 /\ Told(IF Succeeded(line) THEN "sent" ELSE "at_send_failed")
    /\ UNCHANGED <<hasQmi, known, onBus, session, inbox, out, air, receipts, last, faults>>

\* The answer does not come in time.  A prompt that never came is escaped.
AtTimeout ==
    /\ job.kind = "at" /\ job.step \in {2, 4, 5} /\ serial.out = <<>>
    /\ \/ Fault
       \/ ~job.live /\ UNCHANGED faults
    /\ job' = Idle
    /\ serial' = IF job.step = 4 /\ job.live
                 THEN [serial EXCEPT !.in = Append(@, [cmd |-> "esc", n |-> 0])]
                 ELSE serial
    /\ Told("at_send_failed")
    /\ UNCHANGED <<hasQmi, known, onBus, session, inbox, out, air, receipts, last>>

\* The module reads what was written (external).  At a prompt a line is
\* message text and another prompt follows; Ctrl-Z submits, ESC abandons.
SerialStep(took) ==
    /\ onBus /\ serial.in # <<>>
    /\ LET item == Head(serial.in)
           Says(line, prompt) ==
               serial' = [in |-> Tail(serial.in), out |-> Append(serial.out, line), prompt |-> prompt]
           word == IF took THEN "OK" ELSE "ERROR"
       IN CASE item.cmd = "esc" ->
                 /\ serial' = [serial EXCEPT !.in = Tail(@), !.prompt = FALSE]
                 /\ took /\ UNCHANGED air
            [] item.cmd = "pdu" ->
                 /\ Says(word, FALSE)
                 /\ took => serial.prompt
                 /\ Transmit(item.n, took)
            [] item.cmd = "cmgs" /\ took -> Says(">", TRUE) /\ UNCHANGED air
            [] OTHER ->
                 /\ Says(IF serial.prompt THEN ">" ELSE word, serial.prompt)
                 /\ UNCHANGED air
    /\ UNCHANGED <<hasQmi, known, onBus, job, session, inbox, out, result, receipts, last, faults>>

-----------------------------------------------------------------------------
(* Receipts *)

\* The network reports the fate of a message that was on the air (external).
Delivered(n) ==
    /\ air[n] > 0 /\ n \notin receipts.arrived /\ onBus
    /\ receipts' = [receipts EXCEPT !.store = @ \cup {n}, !.arrived = @ \cup {n}]
    /\ UNCHANGED <<hasQmi, known, onBus, job, session, inbox, out, serial, air, result, last, faults>>

\* Reports are enabled, the store that holds them is selected, and it is not
\* empty; any command of that may go unanswered or be refused.
Selected(answered) == answered /\ job.live /\ receipts.store # {}

\* read_at_pass, at the end of a probe: the report store is listed, or the
\* port answers something else and the pass goes without.  Only a module with
\* a QMI node is asked.
ListReports(answered) ==
    /\ job.kind = "receipts" /\ job.step = 0
    /\ IF Selected(answered)
       THEN /\ job' = [job EXCEPT !.step = 1]
            /\ receipts' = [receipts EXCEPT !.listed = receipts.store, !.read = @ \cup receipts.store]
       ELSE job' = Idle /\ UNCHANGED receipts
    /\ UNCHANGED <<hasQmi, known, onBus, session, inbox, out, serial, air, result, last, faults>>

\* AT+CMGD for each index of the listing, whether or not it could be decoded.
Deleted == receipts.listed

\* Deleting an index may fail, and is logged.
DeleteReports(failed) ==
    /\ job.kind = "receipts" /\ job.step = 1
    /\ job' = [job EXCEPT !.step = 2]
    /\ receipts' = [receipts EXCEPT !.store = @ \ (Deleted \ failed)]
    /\ UNCHANGED <<hasQmi, known, onBus, session, inbox, out, serial, air, result, last, faults>>

\* One append for each report; the first that fails ends the pass.
QueueReports(taken) ==
    /\ job.kind = "receipts" /\ job.step = 2
    /\ job' = Idle
    /\ receipts' = [receipts EXCEPT !.queued = @ \cup taken, !.listed = {}]
    /\ UNCHANGED <<hasQmi, known, onBus, session, inbox, out, serial, air, result, last, faults>>

-----------------------------------------------------------------------------

\* The agent stops and starts again: what it was doing is not finished, and
\* it knows no node until the poll has found one.  A command that was under
\* way is not run again (CommandExecutor); the result it gets says so.
Restart ==
    /\ Fault
    /\ job' = Idle /\ session' = NewClient /\ known' = FALSE
    /\ Told("interrupted")
    /\ receipts' = [receipts EXCEPT !.listed = {}]
    /\ UNCHANGED <<hasQmi, onBus, inbox, out, serial, air, last>>

SubmitStep ==
    \/ \E n \in Send : SendSms(n)
    \/ Probe \/ Write \/ ReadFrame \/ Hangup
    \/ AtWrite \/ AtRead
    \/ AtTimeout
    \/ \E answered \in BOOLEAN : ListReports(answered)
    \/ \E failed \in SUBSET receipts.listed : DeleteReports(failed)
    \/ \E taken \in SUBSET receipts.listed : QueueReports(taken)

Module ==
    \/ \E took \in BOOLEAN, given \in ClientId : Handle(took, given)
    \/ \E took \in BOOLEAN : SerialStep(took)
    \/ ComeBack

SubmitNext ==
    \/ SubmitStep
    \/ Module
    \/ \E error \in {"timeout", "gone", "left_bus"} : WriteRaced(error)
    \/ Timeout \/ Indicate
    \/ \E kept \in BOOLEAN : LeaveBus(kept)
    \/ \E n \in Send : Delivered(n)
    \/ Restart

SubmitSpec == SubmitInit /\ [][SubmitNext]_submitVars

\* The agent's own loop runs, and a module on the bus handles what it was
\* given; faults happen at most MaxFaults times.
FairSubmitSpec ==
    /\ SubmitSpec
    /\ WF_submitVars(SubmitStep)
    /\ WF_submitVars(Module)

-----------------------------------------------------------------------------
(* Properties *)

\* A message the cloud asked for once is on the air at most once, whatever
\* times out, hangs up or restarts on the way: send_sms takes the serial port
\* only when QMI never had the message, and nothing below it writes twice.
NoDoubleSubmit == \A n \in Send : air[n] <= 1

\* A module that answered late is back in step: with no further faults, the
\* sessions with it succeed from some point on (CdcWdmDevice::transact drops
\* the answers nobody waits for any more).
StaysInStep == <>[](hasQmi => last = "ok")

\* A receipt leaves the module's store only after it was read: one that
\* arrives between AT+CMGL and AT+CMGD waits for the next pass.
UnreadReceiptKept ==
    receipts.arrived \subseteq receipts.store \cup receipts.read

\* Both.
SubmitInv == NoDoubleSubmit /\ UnreadReceiptKept
=============================================================================
