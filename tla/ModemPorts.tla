---------------------------- MODULE ModemPorts ----------------------------
(***************************************************************************)
(* Which module answers.  A caller that has the arbiter (ModemArbiter)     *)
(* still has to find the module it was told to use, and the ways of        *)
(* finding one (edge-bin/src/main.rs, Radio and RadioPort::recover_usb)    *)
(* rest on a cdc-wdm number that is remembered for ever and on a USB       *)
(* position that is recorded after the module has answered.  The modules   *)
(* themselves leave the bus and come back under other numbers.             *)
(*                                                                         *)
(* What runs under one lease is one action: nobody else talks to the       *)
(* modules meanwhile, and it uses descriptors opened under that lease,     *)
(* which stay with the device they were opened on.                         *)
(***************************************************************************)
EXTENDS Naturals, FiniteSets

CONSTANTS Modem,        \* the modules, by IMEI
          UsbSite,         \* USB positions, such as 4-3
          Node,         \* cdc-wdm numbers
          Product,      \* [Modem -> vendor and product]
          MaxMoves      \* bound: how often a module moves or falls silent

None == "none"

ASSUME PortsAssumption ==
    /\ Product \in [Modem -> STRING]
    /\ MaxMoves \in Nat
    /\ None \notin Modem \cup UsbSite \cup Node
    \* there is a place and a number for each
    /\ \E f \in [Modem -> UsbSite] : \A a, b \in Modem : a # b => f[a] # f[b]
    /\ \E f \in [Modem -> Node] : \A a, b \in Modem : a # b => f[a] # f[b]

VARIABLES
    site,     \* [Modem -> UsbSite or None]: where each module is attached
    node,     \* [Modem -> Node or None]: its QMI control node
    silent,   \* {<<module, line>>}: which of its lines do not answer
    byImei,   \* Radio::by_imei, never invalidated
    record,   \* modem_usb_sites: [site, product] or NoRecord for each module
    found,    \* the poll's snapshot on its way to remember_usb_site
    last,     \* what this step's lease did: to which module, asked for which
    moves

portsVars == <<site, node, silent, byImei, record, found, last, moves>>

\* A module is asked on its QMI node and on its AT control port; either may
\* answer while the other does not.
Lines == {"qmi", "at"}
SilentOn(m, lines) == {x \in silent : x[1] # m} \cup ({m} \X lines)
Answers(m, line) == <<m, line>> \notin silent

NoSite == [imei |-> None, site |-> None]
NoRecord == [site |-> None, product |-> None]
NoResult == [op |-> None, imei |-> None, on |-> None]

\* One assignment of places: their names do not matter.
Apart(S) == CHOOSE f \in [Modem -> S] : \A a, b \in Modem : a # b => f[a] # f[b]

PortsInit ==
    /\ site = Apart(UsbSite)
    /\ node = Apart(Node)
    /\ silent = {}
    /\ byImei = [m \in Modem |-> None]
    /\ record = [m \in Modem |-> NoRecord]
    /\ found = NoSite
    /\ last = NoResult
    /\ moves = 0

-----------------------------------------------------------------------------
(* The hardware *)

FreeSites == UsbSite \ {site[m] : m \in Modem}
FreeNodes == Node \ {node[m] : m \in Modem}

\* A module leaves the bus and comes back: always under a number that happens
\* to be free, sometimes at another position, and without a QMI node when its
\* composition has none.  It answers or it does not; that one line answers and
\* the other does not is FallsSilent's.
Moves(m) ==
    /\ moves < MaxMoves
    /\ \E n \in FreeNodes \cup {None}, s \in FreeSites \cup {site[m]} :
          /\ node' = [node EXCEPT ![m] = n]
          /\ site' = [site EXCEPT ![m] = s]
    /\ \E lines \in {{}, Lines} : silent' = SilentOn(m, lines)
    /\ moves' = moves + 1
    /\ last' = NoResult
    /\ UNCHANGED <<byImei, record, found>>

\* A line falls silent or answers again: an AT port that is busy for longer
\* than AT_PROBE_TIMEOUT is silent to whoever asks.
FallsSilent(m) ==
    /\ moves < MaxMoves
    /\ \E lines \in SUBSET Lines : silent' = SilentOn(m, lines)
    /\ moves' = moves + 1
    /\ last' = NoResult
    /\ UNCHANGED <<site, node, byImei, record, found>>

At(n) == {m \in Modem : node[m] = n /\ n # None}

-----------------------------------------------------------------------------
(* Finding the module *)

\* path_for: the remembered node, or the first of them when no IMEI is named.
PathFor(imei) ==
    IF imei # None THEN {byImei[imei]} \ {None}
                   ELSE {byImei[m] : m \in Modem} \ {None}

\* Mutant: the remembered node is taken at its word.
ConfirmImeiMutant(imei, m) == TRUE

\* confirm_imei: the module has to name itself before anything is sent to it.
ConfirmImei(imei, m) == imei = None \/ imei = m

\* with_client and with_module_control: the modules the work may run on.
QmiTargets(imei) ==
    {m \in UNION {At(n) : n \in PathFor(imei)} : Answers(m, "qmi") /\ ConfirmImei(imei, m)}

\* start_data: the remembered node, whoever is there by now; nobody asks.
DataTargets(imei) == {m \in UNION {At(n) : n \in PathFor(imei)} : Answers(m, "qmi")}

\* at_port_by_imei: ask every control port who it is.
AtPortByImei(imei) == {m \in Modem : Answers(m, "at") /\ imei \in {None, m}}

\* with_at_port_at: the AT port beside the remembered node, whoever is there;
\* the ports are asked only when no module is there.
AtTargets(imei) ==
    LET beside == UNION {At(n) : n \in PathFor(imei)}
    IN  IF beside # {} THEN {m \in beside : Answers(m, "at")} ELSE AtPortByImei(imei)

-----------------------------------------------------------------------------
(* recover_usb *)

\* usb_census: who answers on its AT control port, by position.  "Deliberately
\* AT and not QMI".
Census == {m \in Modem : Answers(m, "at")}

\* What sysfs reports at a position now.
IdentityAt(s) == {Product[m] : m \in {x \in Modem : site[x] = s}}

\* Mutant: nobody asks who answers at the recorded position.
AimUsbResetMutant(imei) ==
    IF imei = None THEN {}
    ELSE IF imei \in Census THEN {site[imei]}
    ELSE {s \in UsbSite : /\ record[imei] # NoRecord
                       /\ s = record[imei].site
                       /\ record[imei].product \in IdentityAt(s)}

\* aim_usb_reset: a module that answers is aimed at where it is; one that does
\* not, where it was recorded, if that place still holds the same product and
\* nobody who answers.  Every other case is a refusal.
AimUsbReset(imei) ==
    IF imei = None THEN {}
    ELSE IF imei \in Census THEN {site[imei]}
    ELSE {s \in UsbSite :
            /\ record[imei] # NoRecord
            /\ s = record[imei].site
            /\ record[imei].product \in IdentityAt(s)
            /\ \A m \in Census : site[m] # s}

\* recover_usb_device: the device is de-authorised and authorised again, and
\* comes back under any free number; when that fails half way it stays away.
RecoverUsb(imei) ==
    \E s \in AimUsbReset(imei) : \E m \in {x \in Modem : site[x] = s} :
        /\ \/ \E n \in FreeNodes \cup {node[m]} :
                 /\ node' = [node EXCEPT ![m] = n]
                 /\ \E lines \in {{}, Lines} : silent' = SilentOn(m, lines)
           \/ node' = [node EXCEPT ![m] = None] /\ silent' = SilentOn(m, Lines)
        /\ last' = [op |-> "reset_usb", imei |-> imei, on |-> m]
        /\ UNCHANGED site

-----------------------------------------------------------------------------
(* One lease each *)

\* The work ran on the module `on', or was refused.
Ran(op, imei, on) ==
    /\ last' = IF on = None THEN NoResult ELSE [op |-> op, imei |-> imei, on |-> on]
    /\ UNCHANGED <<site, node, silent>>

\* A command over QMI (with_client, with_module_control): it runs on a target,
\* or is refused (modem_not_found, modem_open_failed, modem_sync_failed,
\* modem_moved).
OverQmi(imei) ==
    /\ \E on \in QmiTargets(imei) \cup {None} : Ran("qmi", imei, on)
    /\ UNCHANGED <<byImei, record, found, moves>>

\* The session of a data connection is opened on whoever is at the node.
OpensDataSession(imei) ==
    /\ \E on \in DataTargets(imei) \cup {None} : Ran("start_data", imei, on)
    /\ UNCHANGED <<byImei, record, found, moves>>

\* A command over AT, or the APDUs of an authentication (with_at_port_at).
OverAt(imei) ==
    /\ \E on \in AtTargets(imei) \cup {None} : Ran("at", imei, on)
    /\ UNCHANGED <<byImei, record, found, moves>>

\* recover_usb: a reset that finds no target changes nothing and says so.
ResetUsb(imei) ==
    /\ \/ RecoverUsb(imei)
       \/ AimUsbReset(imei) = {} /\ Ran("reset_usb", imei, None)
    /\ UNCHANGED <<byImei, record, found, moves>>

\* probe_one: the module at the node says who it is and is remembered under
\* that node; its position leaves with the snapshot.
ProbeOne(n) ==
    /\ found = NoSite
    /\ \/ \E m \in At(n) :
             /\ Answers(m, "qmi")
             /\ byImei' = [byImei EXCEPT ![m] = n]
             /\ found' = [imei |-> m, site |-> site[m]]
       \/ UNCHANGED <<byImei, found>>
    /\ Ran("probe", None, None)
    /\ UNCHANGED <<record, moves>>

\* remember_usb_site: after the probe, without the arbiter.  The position was
\* read with the module; the product is read there now.
RememberUsbSite ==
    /\ found # NoSite
    /\ record' = IF IdentityAt(found.site) = {} THEN record
                 ELSE [record EXCEPT ![found.imei] =
                          [site |-> found.site,
                           product |-> CHOOSE p \in IdentityAt(found.site) : TRUE]]
    /\ found' = NoSite
    /\ last' = NoResult
    /\ UNCHANGED <<site, node, silent, byImei, moves>>

\* The agent starts again: the index is empty, the recorded positions are not.
RestartPorts ==
    /\ byImei # [m \in Modem |-> None]
    /\ byImei' = [m \in Modem |-> None]
    /\ found' = NoSite
    /\ last' = NoResult
    /\ UNCHANGED <<site, node, silent, record, moves>>

PortsNext ==
    \/ \E m \in Modem : Moves(m) \/ FallsSilent(m)
    \/ \E imei \in Modem \cup {None} : OverQmi(imei) \/ OverAt(imei) \/ ResetUsb(imei)
    \/ \E imei \in Modem : OpensDataSession(imei)
    \/ \E n \in Node : ProbeOne(n)
    \/ RememberUsbSite
    \/ RestartPorts

PortsSpec == PortsInit /\ [][PortsNext]_portsVars

-----------------------------------------------------------------------------
(* Properties *)

\* A command that names a module and goes over QMI through with_client or
\* with_module_control runs on that module or on none, however often the
\* cdc-wdm numbers were dealt out again since the poll last looked
\* (confirm_imei).  The one QMI user left out is start_data, which opens the
\* remembered node and does not ask who is there.
RightModule == last.op = "qmi" /\ last.imei # None => last.on = last.imei

\* A USB reset takes down the module it names or one whose AT port is silent;
\* a module that answers there is never reset in another's place
\* (aim_usb_reset).  That is less than "a stick that answers neither QMI nor
\* AT": the census asks over AT only, so a module that works over QMI and
\* misses the probe of its AT port can be taken for the silent one.
\* In the state after the reset the device may answer again, so this is about
\* the step.
ResetSparesWorking ==
    [][last'.op = "reset_usb" => last'.on = last'.imei \/ <<last'.on, "at">> \in silent]_portsVars
=============================================================================
