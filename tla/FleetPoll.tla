----------------------------- MODULE FleetPoll -----------------------------
(***************************************************************************)
(* One pass of the poll (edge-bin poll_modems): enumerate the QMI nodes    *)
(* and the serial ports, probe each, name what went silent or missing,     *)
(* refresh the inventory rows and send one DeviceState.  A pass is many    *)
(* exchanges with hardware, and between any two of them a stick is moved,  *)
(* a card is swapped, an operator adopts, releases, approves or revokes,   *)
(* or the process restarts.  Alerts raised on the way go through the       *)
(* per-code throttle of edge-core alert.rs.                                *)
(*                                                                         *)
(* The candidate table of QMI and AT endpoints, and the enforcement the    *)
(* pass runs before it reports, are in ModemRegistry; the inbox sweep is   *)
(* in SmsIngest.                                                           *)
(***************************************************************************)
EXTENDS Naturals, FiniteSets, Sequences

CONSTANTS
    Module,         \* the modules, named by IMEI
    Site,           \* USB positions
    Card,           \* cards, named by ICCID; a card's number is named after it
    NoCard,         \* NULL: no ICCID, no number
    Nowhere,        \* not plugged in, or not remembered
    FaceChoice,     \* which modules have a QMI node, an AT port, a manual port
    Window,         \* AlertThrottle.window_ms
    MaxClock,       \* bound: readings of the wall clock
    MaxPasses,      \* bound: passes
    MaxEvents       \* bound: things that happen beside the poll, and failing reads

ASSUME FleetAssumption ==
    /\ \E w \in [Module -> Site] : \A m, n \in Module : w[m] = w[n] => m = n
    /\ FaceChoice \subseteq [Module -> {"qmi", "at", "manual"}]
    /\ Card # {} /\ Nowhere \notin Module \cup Site
    /\ Window \in Nat /\ MaxClock \in Nat

Code == {"qmi_poll_failed", "modem_absent"}

VARIABLES
    face,           \* module -> "qmi", "at" or "manual" (AtProbePolicy)
    where,          \* module -> the site it is plugged into
    sim,            \* module -> the card in it
    managed,        \* registered_modems
    row,            \* local_modems: module -> [known, iccid, number, numbered]
    serial,         \* discovery rows of manual ports: site -> state
    approved,       \* manual_modem_profiles
    seen,           \* PollMemory.seen: module -> site (this process)
    throttle,       \* AlertThrottle: code -> [said, at, held] (this process)
    unsaid,         \* occurrences neither announced nor lost with their alert
    pass,           \* the pass under way; ghosts: who stayed adopted, who was at some
                    \* time, who was heard, and whom the missing filter could not look up
    report,         \* the DeviceState the last pass enqueued
    passes, events

fleetVars == <<face, where, sim, managed, row, serial, approved,
               seen, throttle, unsaid, pass, report, passes, events>>
worldVars == <<face, where, sim>>
registryVars == <<managed, serial, approved>>
alertVars == <<throttle, unsaid>>

NoRow == [known |-> FALSE, iccid |-> NoCard, number |-> NoCard, numbered |-> NoCard]
NoHand == [imei |-> Nowhere, site |-> Nowhere, iccid |-> NoCard]
Idle == [at |-> "idle", now |-> 0, qmi |-> {}, ats |-> {}, claimed |-> {}, snaps |-> <<>>,
         hand |-> NoHand, todo |-> {}, cache |-> [m \in Module |-> NoRow],
         kept |-> {}, ever |-> {}, heard |-> {}, unread |-> {}]
NoReport == [sent |-> {}, listed |-> FALSE, list |-> {}, kept |-> {}, ever |-> {}, spoken |-> {},
             heard |-> {}, unread |-> {}]
Fresh == [c \in Code |-> [said |-> FALSE, at |-> 0, held |-> 0]]

FleetInit ==
    /\ face \in FaceChoice
    \* Sites are interchangeable: one placement stands for all.
    /\ where = CHOOSE w \in [Module -> Site] : \A m, n \in Module : w[m] = w[n] => m = n
    /\ sim \in [Module -> Card \cup {NoCard}]
    /\ managed \in {{}, Module}
    /\ row = [m \in Module |-> NoRow]
    /\ serial = [s \in Site |-> "none"]
    /\ approved = {}
    /\ seen = [m \in Module |-> Nowhere]
    /\ throttle = Fresh
    /\ unsaid = [c \in Code |-> 0]
    /\ pass = Idle
    /\ report = NoReport
    /\ passes = 0 /\ events = 0

-----------------------------------------------------------------------------
(* Alerts.                                                                 *)

\* With a suppressed occurrence that is not counted.
ConsiderMutant(t, now) ==
    IF t.said /\ now < t.at + Window
    THEN [entry |-> t, send |-> FALSE, repeats |-> 0]
    ELSE [entry |-> [said |-> TRUE, at |-> now, held |-> 0], send |-> TRUE,
          repeats |-> IF t.said THEN t.held ELSE 0]

\* AlertThrottle::consider.  A clock that stepped back is inside the window.
Consider(t, now) ==
    IF t.said /\ now < t.at + Window
    THEN [entry |-> [t EXCEPT !.held = @ + 1], send |-> FALSE, repeats |-> 0]
    ELSE [entry |-> [said |-> TRUE, at |-> now, held |-> 0], send |-> TRUE,
          repeats |-> IF t.said THEN t.held ELSE 0]

\* raise_alert, emit_alert: an announcement carries the ones held back since
\* the last; whether or not it could be appended they are not told again.
RaiseAlert(code) ==
    LET d == Consider(throttle[code], pass.now)
    IN  /\ throttle' = [throttle EXCEPT ![code] = d.entry]
        /\ unsaid' = [unsaid EXCEPT ![code] = IF d.send THEN (@ + 1) - (1 + d.repeats) ELSE @ + 1]

-----------------------------------------------------------------------------
(* The inventory row.                                                      *)

\* upsert_local_modem_with: the card's number is kept while the row's number
\* was read from the card the row now names; Unasked keeps the stored card.
UpsertLocalModem(m, iccid, answered, number) ==
    LET old == row[m]
        card == IF answered THEN iccid ELSE IF iccid # NoCard THEN iccid ELSE old.iccid
        same == old.numbered = card
    IN  row' = [row EXCEPT ![m] =
            [ known |-> TRUE, iccid |-> card,
              number |-> IF number # NoCard THEN number ELSE IF same THEN old.number ELSE NoCard,
              numbered |-> IF number # NoCard /\ iccid # NoCard THEN iccid
                           ELSE IF same THEN old.numbered ELSE NoCard ]]

\* set_modem_msisdn updates a row that exists.
SetModemMsisdn(m, number, iccid) ==
    row' = IF row[m].known THEN [row EXCEPT ![m].number = number, ![m].numbered = iccid] ELSE row

-----------------------------------------------------------------------------
(* The registry, as the pass asks it.                                      *)

\* is_managed: a registry that cannot be read answers no.
IsManaged(m, read) == read /\ m \in managed

\* Failing reads are bounded with the events; the failing read of a module that
\* is not adopted answers what a working one does and is left out.
Unread(read) == IF read THEN 0 ELSE 1
StoreFails(n) == events + n <= MaxEvents /\ events' = events + n

-----------------------------------------------------------------------------
(* The pass.                                                               *)

Plugged(s, kinds) == \E m \in Module : where[m] = s /\ face[m] \in kinds
Snapshot(m, state, iccid, via, s) == [imei |-> m, state |-> state, iccid |-> iccid, via |-> via, site |-> s]
Imeis(snaps) == {snaps[i].imei : i \in DOMAIN snaps}

\* approved_manual_serial_candidates, manual_profile_matches: an approval counts
\* for the live port it was given for, and none when the table is unreadable.
ApprovedManual(profilesRead) ==
    IF profilesRead THEN {s \in approved : Plugged(s, {"manual"})} ELSE {}

\* record_manual_serial_candidate: the row of a manual port names no module.
RecordManualSerial(allowed) ==
    serial' = [s \in Site |-> IF ~Plugged(s, {"manual"}) THEN serial[s]
                              ELSE IF s \in allowed THEN "claimed" ELSE "found"]

\* at_paths_to_probe
AtPathsToProbe(allowed) == {s \in Site : Plugged(s, {"qmi", "at"})} \cup allowed

\* The enumerations, and the rows of the manual ports.
StartPass(now, profilesRead) ==
    LET allowed == ApprovedManual(profilesRead)
    IN  /\ pass.at = "idle" /\ passes < MaxPasses
        /\ profilesRead \/ approved # {}
        /\ pass' = [Idle EXCEPT !.at = "probe", !.now = now,
                                !.qmi = {s \in Site : Plugged(s, {"qmi"})},
                                !.ats = AtPathsToProbe(allowed),
                                !.kept = managed, !.ever = managed]
        /\ RecordManualSerial(allowed)
        /\ report' = NoReport
        /\ passes' = passes + 1
        /\ UNCHANGED <<worldVars, managed, row, approved, seen, alertVars, events>>

Probing == pass.at = "probe" /\ pass.hand = NoHand

\* probe_one, the part that talks to the module: the card's number may not be
\* readable.
ReadModule(s, m, cardRead) ==
    /\ Probing /\ s \in pass.qmi
    /\ where[m] = s /\ face[m] = "qmi"
    /\ pass' = [pass EXCEPT !.hand = [imei |-> m, site |-> s,
                                      iccid |-> IF cardRead THEN sim[m] ELSE NoCard]]
    /\ UNCHANGED <<worldVars, registryVars, row, seen, alertVars, report, passes, events>>

\* The node does not open, does not answer, or gives no IMEI.
QmiFails(s) ==
    /\ Probing /\ s \in pass.qmi
    /\ RaiseAlert("qmi_poll_failed")
    /\ pass' = [pass EXCEPT !.qmi = @ \ {s}]
    /\ UNCHANGED <<worldVars, registryVars, row, seen, report, passes, events>>

\* The rest of probe_one and its arm of the loop: an adopted module's row is
\* written, and only an adopted one is reported.  Each asks the registry itself.
RecordModule(rowRead, listRead) ==
    LET h == pass.hand
        mine == IsManaged(h.imei, listRead)
    IN  /\ pass.at = "probe" /\ h # NoHand
        /\ (rowRead /\ listRead) \/ h.imei \in managed
        /\ IF IsManaged(h.imei, rowRead)
           THEN UpsertLocalModem(h.imei, h.iccid, TRUE, NoCard) ELSE row' = row
        /\ pass' = [pass EXCEPT !.hand = NoHand, !.qmi = @ \ {h.site}, !.claimed = @ \cup {h.site},
               !.heard = IF listRead THEN @ \cup {h.imei} ELSE @,
               !.snaps = IF mine THEN Append(@, Snapshot(h.imei, "online", h.iccid, "qmi", h.site)) ELSE @]
        /\ StoreFails(Unread(rowRead) + Unread(listRead))
        /\ UNCHANGED <<worldVars, registryVars, seen, alertVars, report, passes>>

\* A receipt that cannot be appended ends the probe before the row is written,
\* a sweep that fails ends it after.
RecordFails(afterRow) ==
    LET h == pass.hand
    IN  /\ pass.at = "probe" /\ h # NoHand
        /\ IF afterRow /\ h.imei \in managed
           THEN UpsertLocalModem(h.imei, h.iccid, TRUE, NoCard) ELSE row' = row
        /\ RaiseAlert("qmi_poll_failed")
        /\ pass' = [pass EXCEPT !.hand = NoHand, !.qmi = @ \ {h.site}]
        /\ UNCHANGED <<worldVars, registryVars, seen, report, passes, events>>

AtTurn(s) == Probing /\ pass.qmi = {} /\ s \in pass.ats

\* A USB device the QMI half accounted for is not examined again.
SkipClaimed(s) ==
    /\ AtTurn(s) /\ s \in pass.claimed
    /\ pass' = [pass EXCEPT !.ats = @ \ {s}]
    /\ UNCHANGED <<worldVars, registryVars, row, seen, alertVars, report, passes, events>>

\* probe_at_only and upsert_at_only_local_modem; the card and the number are
\* asked on the open port, and a card question nobody answers is Unasked.  A
\* row that cannot be written ends the pass.
ProbeAtOnly(s, m, asked, numbered, written, rowRead, listRead) ==
    LET iccid == IF asked THEN sim[m] ELSE NoCard
        kept == IsManaged(m, rowRead)
        mine == IsManaged(m, listRead)
    IN  /\ AtTurn(s) /\ s \notin pass.claimed
        /\ where[m] = s
        /\ (rowRead /\ listRead) \/ m \in managed
        /\ written \/ (kept /\ listRead)
        /\ IF kept /\ written
           THEN UpsertLocalModem(m, iccid, asked, IF numbered THEN sim[m] ELSE NoCard) ELSE row' = row
        /\ pass' = IF ~written THEN Idle
                   ELSE [pass EXCEPT !.ats = @ \ {s}, !.claimed = @ \cup {s},
                            !.heard = IF listRead THEN @ \cup {m} ELSE @,
                            !.snaps = IF mine THEN Append(@, Snapshot(m, "online", iccid, "at", s)) ELSE @]
        /\ StoreFails(Unread(rowRead) + Unread(listRead))
        /\ UNCHANGED <<worldVars, registryVars, seen, alertVars, report, passes>>

\* A port that does not answer is named by whoever this process last met there.
SilentPort(s, read) ==
    LET last == {m \in Module : seen[m] = s}
        Name(m) == [pass EXCEPT !.ats = @ \ {s}, !.claimed = @ \cup {s},
                       !.snaps = IF IsManaged(m, read)
                                 THEN Append(@, Snapshot(m, "unknown", NoCard, "at", s)) ELSE @]
    IN  /\ AtTurn(s) /\ s \notin pass.claimed
        /\ read \/ last \cap managed # {}
        /\ IF last = {} THEN pass' = [pass EXCEPT !.ats = @ \ {s}]
           ELSE \E m \in last : pass' = Name(m)
        /\ StoreFails(Unread(read))
        /\ UNCHANGED <<worldVars, registryVars, row, seen, alertVars, report, passes>>

\* With every module this process ever identified, adopted or not.
MissingMutant(unread) == {m \in Module : seen[m] # Nowhere /\ m \notin Imeis(pass.snaps)}

\* Modules this process has met that are in neither enumeration and that the
\* registry says are adopted; none when the scan itself found nothing.
Missing(unread) == {m \in Module : /\ pass.snaps # <<>> /\ seen[m] # Nowhere
                                   /\ m \notin Imeis(pass.snaps) /\ IsManaged(m, m \notin unread)}

EndProbes(unread) ==
    /\ Probing /\ pass.qmi = {} /\ pass.ats = {}
    /\ unread \subseteq Missing({})
    /\ pass' = [pass EXCEPT !.at = "absent", !.todo = Missing(unread), !.unread = unread]
    /\ StoreFails(Unread(unread = {}))
    /\ UNCHANGED <<worldVars, registryVars, row, seen, alertVars, report, passes>>

Absent(m) ==
    /\ pass.at = "absent" /\ m \in pass.todo
    /\ RaiseAlert("modem_absent")
    /\ pass' = [pass EXCEPT !.todo = @ \ {m},
                            !.snaps = Append(@, Snapshot(m, "offline", NoCard, "at", seen[m]))]
    /\ UNCHANGED <<worldVars, registryVars, row, seen, report, passes, events>>

\* What answered is remembered with its place, and fill_msisdn reads the
\* stored numbers once for the whole pass.
Remember ==
    LET met == {i \in DOMAIN pass.snaps : pass.snaps[i].state = "online"}
        Last(m) == CHOOSE i \in met : /\ pass.snaps[i].imei = m
                                      /\ \A j \in met : pass.snaps[j].imei = m => j <= i
    IN  /\ pass.at = "absent" /\ pass.todo = {}
        /\ seen' = [m \in Module |-> IF \E i \in met : pass.snaps[i].imei = m
                                     THEN pass.snaps[Last(m)].site ELSE seen[m]]
        /\ pass' = [pass EXCEPT !.at = "fill", !.cache = row,
                                !.todo = {i \in met : pass.snaps[i].via = "qmi"}]
        /\ UNCHANGED <<worldVars, registryVars, row, alertVars, report, passes, events>>

\* fill_msisdn for one snapshot: a stored number stands while it was read from
\* the card the probe saw; otherwise the module is asked now, and the answer is
\* filed under the card of the probe.
FillMsisdn(i, answers) ==
    LET s == pass.snaps[i]
        stored == pass.cache[s.imei]
    IN  /\ pass.at = "fill" /\ i \in pass.todo
        /\ answers => where[s.imei] # Nowhere
        /\ IF (stored.numbered # NoCard /\ stored.numbered = s.iccid) \/ ~answers
           THEN row' = row
           ELSE SetModemMsisdn(s.imei, sim[s.imei], s.iccid)
        /\ pass' = [pass EXCEPT !.todo = @ \ {i}]
        /\ UNCHANGED <<worldVars, registryVars, seen, alertVars, report, passes, events>>

\* The adoptions travel by themselves, so that a module that was never seen is in
\* them; a registry that could not be read leaves the list out.
Adoptions(registryRead) == IF registryRead THEN managed ELSE {}

\* device_state_payload: the modules of this pass, and the adoptions.
DeviceStatePayload(registryRead) ==
    [ sent |-> {<<pass.snaps[i].imei, pass.snaps[i].state>> : i \in DOMAIN pass.snaps},
      listed |-> registryRead, list |-> Adoptions(registryRead),
      kept |-> pass.kept, ever |-> pass.ever,
      spoken |-> {m \in Module : seen[m] # Nowhere},
      heard |-> pass.heard, unread |-> pass.unread ]

\* enqueue_device_state ends the pass.
Report(appended, registryRead) ==
    /\ pass.at = "fill" /\ pass.todo = {}
    /\ pass' = Idle
    /\ report' = IF appended THEN DeviceStatePayload(registryRead) ELSE NoReport
    /\ UNCHANGED <<worldVars, registryVars, row, seen, alertVars, passes, events>>

-----------------------------------------------------------------------------
(* Beside the poll.                                                        *)

Happens == events < MaxEvents /\ events' = events + 1 /\ UNCHANGED passes

Move(m, s) ==
    /\ Happens
    /\ s # where[m] /\ (s # Nowhere => \A n \in Module : where[n] # s)
    /\ where' = [where EXCEPT ![m] = s]
    /\ UNCHANGED <<face, sim, registryVars, row, seen, alertVars, pass, report>>

SwapSim(m, c) ==
    /\ Happens
    /\ sim' = [sim EXCEPT ![m] = c]
    /\ UNCHANGED <<face, where, registryVars, row, seen, alertVars, pass, report>>

Register(now) ==
    /\ managed' = now
    /\ pass' = [pass EXCEPT !.kept = @ \cap now, !.ever = @ \cup now]
    /\ UNCHANGED <<worldVars, serial, approved, row, seen, alertVars, report>>
Adopt(m) == Happens /\ m \notin managed /\ Register(managed \cup {m})
Release(m) == Happens /\ m \in managed /\ Register(managed \ {m})

\* claim_modem_candidate: a live manual port whose row says found.
Claim(s) ==
    /\ Happens
    /\ Plugged(s, {"manual"}) /\ serial[s] = "found"
    /\ approved' = approved \cup {s}
    /\ UNCHANGED <<worldVars, managed, serial, row, seen, alertVars, pass, report>>

\* revoke_modem_candidate: revocation_refusal looks for the IMEI in the serial
\* row, which never holds one, so only an unknown key is refused.
RevocationRefusal(s) == serial[s] = "none"
Revoke(s) ==
    /\ Happens
    /\ ~RevocationRefusal(s)
    /\ approved' = approved \ {s}
    /\ UNCHANGED <<worldVars, managed, serial, row, seen, alertVars, pass, report>>

\* The process stops and starts: PollMemory and the throttle are new.
Restart ==
    /\ Happens
    /\ seen' = [m \in Module |-> Nowhere]
    /\ throttle' = Fresh /\ unsaid' = [c \in Code |-> 0]
    /\ pass' = Idle /\ report' = NoReport
    /\ UNCHANGED <<worldVars, registryVars, row>>

FleetNext ==
    \/ \E now \in 0..MaxClock, ok \in BOOLEAN : StartPass(now, ok)
    \/ \E s \in Site :
          \/ QmiFails(s) \/ SkipClaimed(s) \/ Claim(s) \/ Revoke(s)
          \/ \E read \in BOOLEAN : SilentPort(s, read)
          \/ \E m \in Module, a \in BOOLEAN : ReadModule(s, m, a)
          \/ \E m \in Module, a, b, c, rowRead, listRead \in BOOLEAN :
                ProbeAtOnly(s, m, a, b, c, rowRead, listRead)
    \/ \E rowRead, listRead \in BOOLEAN : RecordModule(rowRead, listRead)
    \/ \E b \in BOOLEAN : RecordFails(b)
    \/ \E unread \in SUBSET Module : EndProbes(unread)
    \/ Remember
    \/ \E i \in DOMAIN pass.snaps, answers \in BOOLEAN : FillMsisdn(i, answers)
    \/ \E ok, read \in BOOLEAN : Report(ok, read)
    \/ \E m \in Module :
          \/ Absent(m) \/ Adopt(m) \/ Release(m)
          \/ \E s \in Site \cup {Nowhere} : Move(m, s)
          \/ \E c \in Card \cup {NoCard} : SwapSim(m, c)
    \/ Restart

FleetSpec == FleetInit /\ [][FleetNext]_fleetVars

-----------------------------------------------------------------------------
(* Properties.                                                             *)

\* What is sent is the fleet as the operator chose it.  A report that names
\* anything names every module that stayed adopted through the pass and that
\* this process has met, reachable or not, and none that was never adopted
\* during the pass; none that stayed adopted and answered in the pass is called
\* offline; the list of adopted modules, when there is one, agrees (poll_modems).
\* A registry that cannot be read answers no (is_managed), which is excepted
\* where it is asked: a module whose look-up failed as the missing were counted
\* may be left out, and one whose look-up failed as it answered may be called
\* offline.
ReportIsTheFleet ==
    LET named == {e[1] : e \in report.sent}
    IN  /\ named # {} => (report.kept \cap report.spoken) \ report.unread \subseteq named
        /\ named \subseteq report.ever
        /\ \A m \in report.kept \cap report.heard : <<m, "offline">> \notin report.sent
        /\ report.listed => report.kept \subseteq report.list /\ report.list \subseteq report.ever

\* No occurrence of a fault is forgotten by the throttle: those not announced
\* are exactly the ones it still holds back for the next announcement
\* (AlertThrottle::consider, raise_alert).
AlertsAccounted == \A c \in Code : unsaid[c] = throttle[c].held
=============================================================================
