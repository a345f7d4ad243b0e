--------------------------- MODULE ModemsProofs ---------------------------
(***************************************************************************)
(* What is proved of the work done on a module: that the module found is   *)
(* the one that was named (ModemPorts), that neither the SM-DP+ nor the    *)
(* cloud is left with a wrong idea of the card (EsimCard), that no data    *)
(* link is left behind or brought up against the operator's word           *)
(* (DataPlane), that a module taken off the air is put back                *)
(* (RadioControl), and that no modem is retired before it had its grace    *)
(* period (ModemRegistry).                                                 *)
(***************************************************************************)
EXTENDS ModemPorts, RadioControl, DataPlane, EsimCard, ModemRegistry, WellFoundedInduction, TLAPS

-----------------------------------------------------------------------------
(* Which module answers *)

\* No two modules are attached at one position.  What a USB reset takes down
\* is whatever is at a position, so the aim is as good as this is.
OneToASite ==
    /\ site \in [Modem -> UsbSite]
    /\ \A a, b \in Modem : a # b => site[a] # site[b]

PortsInv == OneToASite /\ RightModule

LEMMA PortsInitially == PortsInit => PortsInv
  <1> SUFFICES ASSUME PortsInit PROVE PortsInv
    OBVIOUS
  <1>1. \E f \in [Modem -> UsbSite] : \A a, b \in Modem : a # b => f[a] # f[b]
    BY PortsAssumption
  <1>2. OneToASite
    BY <1>1 DEF PortsInit, Apart, OneToASite
  <1>3. RightModule
    BY DEF PortsInit, RightModule, NoResult, None
  <1> QED
    BY <1>2, <1>3 DEF PortsInv

\* A module that moves takes a position nobody has, or keeps its own.
LEMMA MovesKeepsApart ==
  ASSUME OneToASite, NEW m \in Modem, Moves(m) PROVE OneToASite'
  <1>1. PICK s \in FreeSites \cup {site[m]} : site' = [site EXCEPT ![m] = s]
    BY DEF Moves
  <1>2. s \in UsbSite
    BY DEF FreeSites, OneToASite
  <1>3. \A x \in Modem : x # m => site[x] # s
    BY DEF FreeSites, OneToASite
  <1> QED
    BY <1>1, <1>2, <1>3 DEF OneToASite

LEMMA PortsStep == PortsInv /\ [PortsNext]_portsVars => PortsInv'
  <1> SUFFICES ASSUME PortsInv, [PortsNext]_portsVars PROVE PortsInv'
    OBVIOUS
  <1> USE DEF PortsInv
  <1>1. ASSUME NEW m \in Modem, Moves(m) PROVE PortsInv'
    BY <1>1, MovesKeepsApart DEF Moves, RightModule, NoResult, None
  <1>2. ASSUME NEW m \in Modem, FallsSilent(m) PROVE PortsInv'
    BY <1>2 DEF FallsSilent, RightModule, OneToASite, NoResult, None
  <1>3. ASSUME NEW imei \in Modem \cup {None}, OverQmi(imei) PROVE PortsInv'
    <2>1. PICK on \in QmiTargets(imei) \cup {None} : Ran("qmi", imei, on)
      BY <1>3 DEF OverQmi
    <2>2. on = None \/ imei = None \/ imei = on
      BY DEF QmiTargets, ConfirmImei
    <2> QED
      BY <2>1, <2>2 DEF Ran, RightModule, OneToASite, NoResult, None
  <1>4. ASSUME NEW imei \in Modem \cup {None}, OverAt(imei) \/ OpensDataSession(imei) PROVE PortsInv'
    BY <1>4 DEF OverAt, OpensDataSession, Ran, RightModule, OneToASite, NoResult, None
  <1>5. ASSUME NEW imei \in Modem \cup {None}, ResetUsb(imei) PROVE PortsInv'
    BY <1>5 DEF ResetUsb, RecoverUsb, Ran, RightModule, OneToASite, NoResult, None
  <1>6. ASSUME NEW n \in Node, ProbeOne(n) PROVE PortsInv'
    BY <1>6 DEF ProbeOne, Ran, RightModule, OneToASite, NoResult, None
  <1>7. CASE RememberUsbSite
    BY <1>7 DEF RememberUsbSite, RightModule, OneToASite, NoResult, None
  <1>8. CASE RestartPorts
    BY <1>8 DEF RestartPorts, RightModule, OneToASite, NoResult, None
  <1>9. CASE UNCHANGED portsVars
    BY <1>9 DEF portsVars, RightModule, OneToASite
  <1> QED
    BY <1>1, <1>2, <1>3, <1>4, <1>5, <1>6, <1>7, <1>8, <1>9 DEF PortsNext

\* A command over QMI that names a module runs on that module or on none, for
\* any number of modules, positions and nodes and however often they change
\* places, if it confirms the IMEI first (with_client, with_module_control;
\* start_data does not).
THEOREM AlwaysRightModule == PortsSpec => []RightModule
  <1>1. PortsInv => RightModule
    BY DEF PortsInv
  <1> QED
    BY <1>1, PortsInitially, PortsStep, PTL DEF PortsSpec

\* What a reset takes down: the module it names, when that answers, because
\* nobody else is where it is; otherwise something that is at a position where
\* nobody answers.
LEMMA AimIsSafe ==
  ASSUME OneToASite, NEW imei, NEW s \in AimUsbReset(imei), NEW m \in Modem, site[m] = s
  PROVE  m = imei \/ <<m, "at">> \in silent
  <1>1. CASE imei \in Census
    <2>1. imei \in Modem
      BY <1>1 DEF Census
    <2>2. s = site[imei]
      BY <1>1 DEF AimUsbReset
    <2> QED
      BY <2>1, <2>2 DEF OneToASite
  <1>2. CASE imei \notin Census
    <2>1. m \notin Census
      BY <1>2 DEF AimUsbReset
    <2> QED
      BY <2>1 DEF Census, Answers
  <1> QED
    BY <1>1, <1>2

\* A USB reset never takes down a module that answers on its AT port in another's
\* place, for any fleet and any record of positions, however stale
\* (aim_usb_reset, usb_census).
THEOREM ResetAlwaysSpares == PortsSpec => ResetSparesWorking
  <1> DEFINE Spares ==
        last'.op = "reset_usb" => last'.on = last'.imei \/ <<last'.on, "at">> \in silent
  <1>1. PortsInv /\ [PortsNext]_portsVars => [Spares]_portsVars
    <2> SUFFICES ASSUME PortsInv, PortsNext PROVE Spares
      OBVIOUS
    <2>1. ASSUME NEW m \in Modem, Moves(m) \/ FallsSilent(m) PROVE Spares
      BY <2>1 DEF Moves, FallsSilent, NoResult, None
    <2>2. ASSUME NEW imei \in Modem \cup {None}, OverQmi(imei) \/ OverAt(imei) \/ OpensDataSession(imei) PROVE Spares
      BY <2>2 DEF OverQmi, OverAt, OpensDataSession, Ran, NoResult, None
    <2>3. ASSUME NEW imei \in Modem \cup {None}, ResetUsb(imei) PROVE Spares
      <3>1. CASE RecoverUsb(imei)
        <4>1. PICK s \in AimUsbReset(imei) : \E m \in {x \in Modem : site[x] = s} :
                 last' = [op |-> "reset_usb", imei |-> imei, on |-> m]
          BY <3>1 DEF RecoverUsb
        <4>2. PICK m \in {x \in Modem : site[x] = s} :
                 last' = [op |-> "reset_usb", imei |-> imei, on |-> m]
          BY <4>1
        <4>3. m = imei \/ <<m, "at">> \in silent
          BY <4>2, AimIsSafe DEF PortsInv
        <4> QED
          BY <4>2, <4>3
      <3>2. CASE Ran("reset_usb", imei, None)
        BY <3>2 DEF Ran, NoResult, None
      <3> QED
        BY <2>3, <3>1, <3>2 DEF ResetUsb
    <2>4. ASSUME NEW n \in Node, ProbeOne(n) PROVE Spares
      BY <2>4 DEF ProbeOne, Ran, NoResult, None
    <2>5. CASE RememberUsbSite
      BY <2>5 DEF RememberUsbSite, NoResult, None
    <2>6. CASE RestartPorts
      BY <2>6 DEF RestartPorts, NoResult, None
    <2> QED
      BY <2>1, <2>2, <2>3, <2>4, <2>5, <2>6 DEF PortsNext
  <1> QED
    BY <1>1, PortsInitially, PortsStep, PTL DEF PortsSpec, ResetSparesWorking

-----------------------------------------------------------------------------
(* The eUICC *)

AnyIccid == Iccid \cup {NoIccid}
StepName == {"idle", "open", "before", "execute", "closing", "readback", "report", "initiate",
             "authenticate server", "authenticate client", "cancel card", "metadata",
             "give back", "prepare", "bind", "load", "notify", "remove", "after"}
JobName == ReadJobs \cup WriteJobs \cup {"download", "nothing"}
Outcome == {"nothing", "error", "done", "stopped", "installed"}
Reading == [lists : SUBSET AnyIccid, truth : SUBSET AnyIccid]
JobRecord == [do : JobName, iccid : AnyIccid, code : BOOLEAN, attempt : Nat,
              got : Outcome, saw : Reading]

\* What an operation has seen of the card is all of it, or is marked as a
\* reading that broke off.
Honest(j) == NoIccid \notin j.saw.lists => j.saw.lists = j.saw.truth
HonestJob == {j \in JobRecord : Honest(j)}

CardTypeOK ==
    /\ held \in SUBSET AnyIccid
    /\ step \in [User -> StepName]
    /\ job \in [User -> HonestJob]

\* A notification is removed by an operation whose server has it.
RemovesWhatWasHeard ==
    \A u \in User : step[u] = "remove" => InstallNote(job[u].iccid) \in heard

EsimInv == CardTypeOK /\ RemovesWhatWasHeard /\ InventoryWhole

LEMMA NoJobHonest == NoJob \in HonestJob
  BY DEF NoJob, HonestJob, Honest, JobRecord, JobName, Outcome, Reading, AnyIccid, NoInventory

LEMMA GotHonest ==
  ASSUME NEW j \in HonestJob, NEW g \in Outcome
  PROVE  /\ [j EXCEPT !.got = g] \in HonestJob
         /\ [j EXCEPT !.got = g].iccid = j.iccid
  BY DEF HonestJob, Honest, JobRecord

\* An operation's step: it moves on, with its own record of what it does.
LEMMA CardMovesOn ==
  ASSUME EsimInv, NEW u \in User, NEW s \in StepName, NEW j \in HonestJob,
         job' = [job EXCEPT ![u] = j], GoesTo(u, s),
         held' \in SUBSET AnyIccid, heard \subseteq heard',
         s = "remove" => InstallNote(j.iccid) \in heard', listing' = listing
  PROVE  EsimInv'
  <1>1. CardTypeOK'
    BY DEF EsimInv, CardTypeOK, GoesTo
  <1>2. RemovesWhatWasHeard'
    <2> SUFFICES ASSUME NEW x \in User, step'[x] = "remove"
                 PROVE  InstallNote(job'[x].iccid) \in heard'
      BY DEF RemovesWhatWasHeard, InstallNote
    <2>1. CASE x = u
      BY <2>1 DEF EsimInv, CardTypeOK, GoesTo
    <2>2. CASE x # u
      BY <2>2 DEF EsimInv, CardTypeOK, GoesTo, RemovesWhatWasHeard
    <2> QED
      BY <2>1, <2>2
  <1>3. InventoryWhole'
    BY DEF EsimInv, InventoryWhole
  <1> QED
    BY <1>1, <1>2, <1>3 DEF EsimInv

\* The three ways a step treats the record: it keeps it, notes an outcome, or
\* gives it up.
LEMMA CardMovesUnchanged ==
  ASSUME EsimInv, NEW u \in User, NEW s \in StepName, job' = job, GoesTo(u, s),
         held' \in SUBSET AnyIccid, heard \subseteq heard',
         s = "remove" => InstallNote(job[u].iccid) \in heard', listing' = listing
  PROVE  EsimInv'
  <1>1. job[u] \in HonestJob
    BY DEF EsimInv, CardTypeOK
  <1>2. job' = [job EXCEPT ![u] = job[u]]
    BY DEF EsimInv, CardTypeOK
  <1> QED
    BY <1>1, <1>2, CardMovesOn

LEMMA CardMovesNoting ==
  ASSUME EsimInv, NEW u \in User, NEW s \in StepName, NEW g \in Outcome,
         job' = [job EXCEPT ![u].got = g], GoesTo(u, s),
         held' \in SUBSET AnyIccid, heard \subseteq heard',
         s # "remove", listing' = listing
  PROVE  EsimInv'
  <1>1. job[u] \in HonestJob
    BY DEF EsimInv, CardTypeOK
  <1>2. [job[u] EXCEPT !.got = g] \in HonestJob
    BY <1>1, GotHonest
  <1>3. job' = [job EXCEPT ![u] = [job[u] EXCEPT !.got = g]]
    OBVIOUS
  <1> QED
    BY <1>2, <1>3, CardMovesOn

LEMMA CardFails ==
  ASSUME EsimInv, NEW u \in User, FailsJob(u), held' \in SUBSET AnyIccid,
         heard \subseteq heard', listing' = listing
  PROVE  EsimInv'
  <1>1. "closing" \in StepName /\ "error" \in Outcome
    BY DEF StepName, Outcome
  <1> QED
    BY <1>1, CardMovesNoting DEF FailsJob

LEMMA CardGivesUp ==
  ASSUME EsimInv, NEW u \in User, job' = [job EXCEPT ![u] = NoJob], GoesTo(u, "idle"),
         held' \in SUBSET AnyIccid, heard \subseteq heard', listing' = listing
  PROVE  EsimInv'
  <1>1. "idle" \in StepName
    BY DEF StepName
  <1> QED
    BY <1>1, CardMovesOn, NoJobHonest

LEMMA EsimInitially == EsimInit => EsimInv
  <1> SUFFICES ASSUME EsimInit PROVE EsimInv
    OBVIOUS
  <1>1. held \in SUBSET AnyIccid
    BY DEF EsimInit, AnyIccid
  <1>2. "idle" \in StepName
    BY DEF StepName
  <1>3. CardTypeOK
    BY <1>1, <1>2, NoJobHonest DEF EsimInit, CardTypeOK
  <1>4. RemovesWhatWasHeard
    BY DEF EsimInit, RemovesWhatWasHeard
  <1>5. InventoryWhole
    BY DEF EsimInit, InventoryWhole, NoInventory
  <1> QED
    BY <1>3, <1>4, <1>5 DEF EsimInv

\* The operation begins with nothing seen.
LEMMA StartHonest ==
  ASSUME NEW do \in JobName, NEW p \in Iccid, NEW code \in BOOLEAN
  PROVE  [NoJob EXCEPT !.do = do, !.iccid = p, !.code = code] \in HonestJob
  BY DEF NoJob, HonestJob, Honest, JobRecord, Outcome, Reading, AnyIccid, NoInventory

LEMMA StartsTold ==
  ASSUME EsimInv, NEW u \in User, StartJob(u) PROVE EsimInv'
  <1>1. held' \in SUBSET AnyIccid /\ heard \subseteq heard' /\ listing' = listing
    BY DEF StartJob, cardVars, serverVars, EsimInv, CardTypeOK
  <1>2. CASE UNCHANGED <<step, job>>
    BY <1>1, <1>2 DEF EsimInv, CardTypeOK, RemovesWhatWasHeard, InventoryWhole
  <1>3. CASE ~UNCHANGED <<step, job>>
    <2>1. PICK do \in ReadJobs \cup WriteJobs \cup {"download"}, p \in Iccid, code \in BOOLEAN :
             /\ job' = [job EXCEPT ![u] = [NoJob EXCEPT !.do = do, !.iccid = p, !.code = code]]
             /\ GoesTo(u, "open")
      BY <1>3 DEF StartJob
    <2>2. do \in JobName
      BY DEF JobName
    <2> DEFINE j == [NoJob EXCEPT !.do = do, !.iccid = p, !.code = code]
    <2>3. j \in HonestJob
      BY <2>2, StartHonest
    <2>4. job' = [job EXCEPT ![u] = j]
      BY <2>1
    <2>5. "open" \in StepName
      BY DEF StepName
    <2> HIDE DEF j
    <2> QED
      BY <1>1, <2>1, <2>3, <2>4, <2>5, CardMovesOn
  <1> QED
    BY <1>2, <1>3

LEMMA OpensTold ==
  ASSUME EsimInv, NEW u \in User, OpenChannel(u) PROVE EsimInv'
  <1>1. held' \in SUBSET AnyIccid /\ heard \subseteq heard' /\ listing' = listing
    BY DEF OpenChannel, cardVars, serverVars, EsimInv, CardTypeOK
  <1>2. {"before", "execute", "readback"} \subseteq StepName
    BY DEF StepName
  <1>3. CASE UNCHANGED job /\ \E s \in {"before", "execute", "readback"} : GoesTo(u, s)
    BY <1>1, <1>2, <1>3, CardMovesUnchanged
  <1>4. CASE RefusedJob(u)
    BY <1>1, <1>4, CardGivesUp DEF RefusedJob
  <1> QED
    BY <1>3, <1>4 DEF OpenChannel

LEMMA ExecutesTold ==
  ASSUME EsimInv, NEW u \in User, Execute(u) PROVE EsimInv'
  <1>1. heard \subseteq heard' /\ listing' = listing
    BY DEF Execute, serverVars
  <1>2. held' \in SUBSET AnyIccid
    BY DEF Execute, cardVars, CardEffect, EsimInv, CardTypeOK
  <1>3. "closing" \in StepName /\ "done" \in Outcome
    BY DEF StepName, Outcome
  <1>4. CASE GoesTo(u, "closing") /\ job' = [job EXCEPT ![u].got = "done"]
    BY <1>1, <1>2, <1>3, <1>4, CardMovesNoting
  <1>5. CASE FailsJob(u)
    BY <1>1, <1>2, <1>5, CardFails
  <1> QED
    BY <1>4, <1>5 DEF Execute

\* The answer is the card's whole list, or the mark of one that broke off.
LEMMA DrainHonest ==
  ASSUME held \in SUBSET AnyIccid, NEW list \in {Drain(held), {NoIccid}}
  PROVE  /\ list \in SUBSET AnyIccid
         /\ NoIccid \notin list => list = held
  BY DEF Drain, AnyIccid

LEMMA ReadsTold ==
  ASSUME EsimInv, NEW u \in User, ReadCard(u) PROVE EsimInv'
  <1>1. heard \subseteq heard' /\ listing' = listing /\ held' = held /\ held \in SUBSET AnyIccid
    BY DEF ReadCard, cardVars, serverVars, EsimInv, CardTypeOK
  <1>2. CASE FailsJob(u)
    BY <1>1, <1>2, CardFails
  <1>3. CASE ~FailsJob(u)
    <2>1. PICK list \in {Drain(held), {NoIccid}} :
             /\ job' = [job EXCEPT ![u].got = "done",
                                   ![u].saw = [lists |-> list, truth |-> held]]
             /\ GoesTo(u, "closing")
      BY <1>3 DEF ReadCard
    <2> DEFINE seen == [lists |-> list, truth |-> held]
               j == [[job[u] EXCEPT !.got = "done"] EXCEPT !.saw = seen]
    <2>2. list \in SUBSET AnyIccid /\ (NoIccid \notin list => list = held)
      BY <1>1, DrainHonest
    <2>3. [job[u] EXCEPT !.got = "done"] \in HonestJob
      BY GotHonest DEF EsimInv, CardTypeOK, Outcome
    <2>4. j \in HonestJob
      <3> DEFINE i == [job[u] EXCEPT !.got = "done"]
      <3>1. i \in JobRecord
        BY <2>3 DEF HonestJob
      <3>2. seen \in Reading
        BY <1>1, <2>2 DEF Reading
      <3> HIDE DEF i
      <3>3. [i EXCEPT !.saw = seen] \in JobRecord
        BY <3>1, <3>2 DEF JobRecord
      <3>4. [i EXCEPT !.saw = seen].saw = seen
        BY <3>1 DEF JobRecord
      <3>5. Honest([i EXCEPT !.saw = seen])
        BY <2>2, <3>4 DEF Honest
      <3> QED
        BY <3>3, <3>5 DEF HonestJob, i
    <2>5. job' = [job EXCEPT ![u] = j]
      BY <2>1 DEF EsimInv, CardTypeOK
    <2>6. "closing" \in StepName
      BY DEF StepName
    <2> HIDE DEF j
    <2> QED
      BY <1>1, <2>1, <2>4, <2>5, <2>6, CardMovesOn
  <1> QED
    BY <1>2, <1>3

LEMMA ClosesTold ==
  ASSUME EsimInv, NEW u \in User, CloseChannel(u) PROVE EsimInv'
  <1>1. held' \in SUBSET AnyIccid /\ heard \subseteq heard' /\ listing' = listing
    BY DEF CloseChannel, serverVars, EsimInv, CardTypeOK
  <1>2. {"readback", "report", "initiate"} \subseteq StepName
    BY DEF StepName
  <1>3. CASE UNCHANGED job /\ \E s \in {"readback", "report", "initiate"} : GoesTo(u, s)
    BY <1>1, <1>2, <1>3, CardMovesUnchanged
  <1>4. CASE GoesTo(u, "idle") /\ job' = [job EXCEPT ![u] = NoJob]
    BY <1>1, <1>4, CardGivesUp
  <1> QED
    BY <1>3, <1>4 DEF CloseChannel, RefusedJob

LEMMA ReadsBackTold ==
  ASSUME EsimInv, NEW u \in User, ReadCardBack(u) PROVE EsimInv'
  <1>1. held' \in SUBSET AnyIccid /\ heard \subseteq heard' /\ listing' = listing
    BY DEF ReadCardBack, cardVars, serverVars, EsimInv, CardTypeOK
  <1>2. CASE GoesTo(u, "idle") /\ job' = [job EXCEPT ![u] = NoJob]
    BY <1>1, <1>2, CardGivesUp
  <1>3. CASE /\ job' = [job EXCEPT ![u].attempt = @ + 1, ![u].got = "nothing"]
             /\ GoesTo(u, "open")
    <2> DEFINE i == [job[u] EXCEPT !.attempt = @ + 1]
               j == [i EXCEPT !.got = "nothing"]
    <2>1. i \in HonestJob
      BY DEF EsimInv, CardTypeOK, HonestJob, Honest, JobRecord
    <2>2. job' = [job EXCEPT ![u] = j]
      BY <1>3 DEF EsimInv, CardTypeOK
    <2> HIDE DEF i
    <2>3. j \in HonestJob
      BY <2>1, GotHonest DEF Outcome
    <2>4. "open" \in StepName
      BY DEF StepName
    <2> HIDE DEF j
    <2> QED
      BY <1>1, <1>3, <2>2, <2>3, <2>4, CardMovesOn
  <1> QED
    BY <1>2, <1>3 DEF ReadCardBack

\* Only a reading that did not break off becomes the inventory.
LEMMA ReportsTold ==
  ASSUME EsimInv, NEW u \in User, ReportInventory(u) PROVE EsimInv'
  <1>1. held' \in SUBSET AnyIccid /\ heard' = heard
    BY DEF ReportInventory, cardVars, serverVars, EsimInv, CardTypeOK
  <1>2. "idle" \in StepName
    BY DEF StepName
  <1>3. CardTypeOK'
    BY <1>1, <1>2, NoJobHonest DEF ReportInventory, GoesTo, EsimInv, CardTypeOK
  <1>4. RemovesWhatWasHeard'
    BY <1>1 DEF ReportInventory, GoesTo, EsimInv, CardTypeOK, RemovesWhatWasHeard
  <1>5. InventoryWhole'
    <2>1. Honest(job[u])
      BY DEF EsimInv, CardTypeOK, HonestJob
    <2>2. InventoryFits(job[u].saw.lists) => job[u].saw.lists = job[u].saw.truth
      BY <2>1 DEF Honest, InventoryFits
    <2> QED
      BY <2>2 DEF ReportInventory, EsimInv, InventoryWhole
  <1> QED
    BY <1>3, <1>4, <1>5 DEF EsimInv

\* The steps of a download up to the package: nothing is seen of the card's
\* list and nothing is heard or removed.
LEMMA DownloadsTold ==
  ASSUME EsimInv, NEW u \in User,
         \/ InitiateOnly(u) \/ BeforeDownload(u) \/ AuthenticateServer(u) \/ AuthenticateClient(u)
         \/ CancelCard(u) \/ JudgeMetadata(u) \/ GiveBack(u) \/ PrepareDownload(u)
         \/ BindPackage(u) \/ AfterDownload(u)
  PROVE  EsimInv'
  <1>1. held' = held /\ held' \in SUBSET AnyIccid
    BY DEF InitiateOnly, BeforeDownload, AuthenticateServer, AuthenticateClient, CancelCard,
           JudgeMetadata, GiveBack, PrepareDownload, BindPackage, AfterDownload, cardVars,
           EsimInv, CardTypeOK
  <1>2. heard' = heard /\ listing' = listing
    BY DEF InitiateOnly, BeforeDownload, AuthenticateServer, AuthenticateClient, CancelCard,
           JudgeMetadata, GiveBack, PrepareDownload, BindPackage, AfterDownload, serverVars
  <1> DEFINE Onward == {"authenticate server", "authenticate client", "cancel card", "metadata",
                        "give back", "prepare", "bind", "load", "closing"}
  <1>3. Onward \subseteq StepName /\ "remove" \notin Onward
    BY DEF StepName
  <1>4. "after" \in StepName /\ "stopped" \in Outcome
    BY DEF StepName, Outcome
  <1>5. CASE GoesTo(u, "idle") /\ job' = [job EXCEPT ![u] = NoJob]
    BY <1>1, <1>2, <1>5, CardGivesUp
  <1>6. CASE FailsJob(u)
    BY <1>1, <1>2, <1>6, CardFails
  <1>7. CASE GoesTo(u, "after") /\ job' = [job EXCEPT ![u].got = "stopped"]
    BY <1>1, <1>2, <1>4, <1>7, CardMovesNoting
  <1>8. ASSUME NEW s \in Onward, GoesTo(u, s), job' = job PROVE EsimInv'
    BY <1>1, <1>2, <1>3, <1>8, CardMovesUnchanged
  <1>9. CASE InitiateOnly(u)
    BY <1>9, <1>5 DEF InitiateOnly, RefusedJob
  <1>10. CASE BeforeDownload(u)
    BY <1>10, <1>6, <1>8 DEF BeforeDownload
  <1>11. CASE AuthenticateServer(u)
    BY <1>11, <1>6, <1>8 DEF AuthenticateServer
  <1>12. CASE AuthenticateClient(u)
    BY <1>12, <1>8 DEF AuthenticateClient
  <1>13. CASE CancelCard(u)
    BY <1>13, <1>6 DEF CancelCard
  <1>14. CASE JudgeMetadata(u)
    BY <1>14, <1>6, <1>8 DEF JudgeMetadata
  <1>15. CASE GiveBack(u)
    BY <1>15, <1>7 DEF GiveBack
  <1>16. CASE PrepareDownload(u)
    BY <1>16, <1>6, <1>8 DEF PrepareDownload
  <1>17. CASE BindPackage(u)
    BY <1>17, <1>6, <1>8 DEF BindPackage
  <1>18. CASE AfterDownload(u)
    BY <1>18, <1>6, <1>8 DEF AfterDownload
  <1> QED
    BY <1>9, <1>10, <1>11, <1>12, <1>13, <1>14, <1>15, <1>16, <1>17, <1>18

LEMMA LoadsTold ==
  ASSUME EsimInv, NEW u \in User, LoadPackage(u) PROVE EsimInv'
  <1>1. heard' = heard /\ listing' = listing
    BY DEF LoadPackage, serverVars
  <1>2. job[u].iccid \in AnyIccid
    BY DEF EsimInv, CardTypeOK, HonestJob, JobRecord
  <1>3. held' \in SUBSET AnyIccid
    BY <1>2 DEF LoadPackage, EsimInv, CardTypeOK
  <1>4. "notify" \in StepName /\ {"installed", "stopped"} \subseteq Outcome
    BY DEF StepName, Outcome
  <1>5. CASE FailsJob(u)
    BY <1>1, <1>3, <1>5, CardFails
  <1>6. ASSUME NEW g \in {"installed", "stopped"}, GoesTo(u, "notify"),
               job' = [job EXCEPT ![u].got = g]
        PROVE  EsimInv'
    BY <1>1, <1>3, <1>4, <1>6, CardMovesNoting
  <1>7. CASE ~FailsJob(u)
    <2>1. PICK installs \in BOOLEAN :
             /\ GoesTo(u, "notify")
             /\ job' = [job EXCEPT ![u].got = IF installs THEN "installed" ELSE "stopped"]
      BY <1>7 DEF LoadPackage
    <2> QED
      BY <1>6, <2>1
  <1> QED
    BY <1>5, <1>7

\* An answer in the 200s is given by a server that has the notification.
LEMMA NotifiesTold ==
  ASSUME EsimInv, NEW u \in User, NotifyServer(u) PROVE EsimInv'
  <1>1. held' \in SUBSET AnyIccid /\ listing' = listing /\ job' = job
    BY DEF NotifyServer, cardVars, EsimInv, CardTypeOK
  <1>2. heard \subseteq heard'
    BY DEF NotifyServer
  <1>3. {"remove", "after"} \subseteq StepName
    BY DEF StepName
  <1>4. PICK status \in Status :
           /\ GoesTo(u, IF PostJson(status) THEN "remove" ELSE "after")
           /\ \/ status # 503 /\ heard' = heard \cup {InstallNote(job[u].iccid)}
              \/ status \in {0, 503} /\ heard' = heard
    BY DEF NotifyServer
  <1>5. PostJson(status) => InstallNote(job[u].iccid) \in heard'
    <2>1. ~PostJson(0) /\ ~PostJson(503)
      BY DEF PostJson
    <2> QED
      BY <1>4, <2>1
  <1>6. CASE PostJson(status)
    BY <1>1, <1>2, <1>3, <1>4, <1>5, <1>6, CardMovesUnchanged
  <1>7. CASE ~PostJson(status)
    BY <1>1, <1>2, <1>3, <1>4, <1>7, CardMovesUnchanged
  <1> QED
    BY <1>6, <1>7

LEMMA RemovesTold ==
  ASSUME EsimInv, NEW u \in User, RemoveNote(u) PROVE EsimInv'
  <1>1. held' \in SUBSET AnyIccid /\ heard' = heard /\ listing' = listing /\ job' = job
    BY DEF RemoveNote, serverVars, EsimInv, CardTypeOK
  <1>2. "after" \in StepName
    BY DEF StepName
  <1> QED
    BY <1>1, <1>2, CardMovesUnchanged DEF RemoveNote

LEMMA EsimStep == EsimInv /\ [EsimNext]_esimVars => EsimInv'
  <1> SUFFICES ASSUME EsimInv, [EsimNext]_esimVars PROVE EsimInv'
    OBVIOUS
  <1>1. ASSUME NEW u \in User,
               \/ StartJob(u) \/ OpenChannel(u) \/ Execute(u) \/ ReadCard(u) \/ CloseChannel(u)
               \/ ReadCardBack(u) \/ ReportInventory(u)
        PROVE  EsimInv'
    BY <1>1, StartsTold, OpensTold, ExecutesTold, ReadsTold, ClosesTold, ReadsBackTold, ReportsTold
  <1>2. ASSUME NEW u \in User,
               \/ InitiateOnly(u) \/ BeforeDownload(u) \/ AuthenticateServer(u)
               \/ AuthenticateClient(u) \/ CancelCard(u) \/ JudgeMetadata(u) \/ GiveBack(u)
               \/ PrepareDownload(u) \/ BindPackage(u) \/ AfterDownload(u)
        PROVE  EsimInv'
    BY <1>2, DownloadsTold
  <1>3. ASSUME NEW u \in User, LoadPackage(u) \/ NotifyServer(u) \/ RemoveNote(u) PROVE EsimInv'
    BY <1>3, LoadsTold, NotifiesTold, RemovesTold
  <1>4. CASE Refreshed
    BY <1>4 DEF Refreshed, serverVars, EsimInv, CardTypeOK, RemovesWhatWasHeard, InventoryWhole
  <1>5. CASE EsimStop
    <2>1. "idle" \in StepName
      BY DEF StepName
    <2>2. CardTypeOK'
      BY <1>5, <2>1, NoJobHonest DEF EsimStop, cardVars, EsimInv, CardTypeOK
    <2>3. RemovesWhatWasHeard'
      BY <1>5 DEF EsimStop, RemovesWhatWasHeard
    <2> QED
      BY <1>5, <2>2, <2>3 DEF EsimStop, EsimInv, InventoryWhole
  <1>6. CASE UNCHANGED esimVars
    BY <1>6 DEF esimVars, EsimInv, CardTypeOK, RemovesWhatWasHeard, InventoryWhole
  <1> QED
    BY <1>1, <1>2, <1>3, <1>4, <1>5, <1>6 DEF EsimNext

\* A notification leaves the card in one action only, and there the server has
\* it.
LEMMA NoteKept ==
  ASSUME EsimInv, EsimNext, NEW n \in owed, n \notin owed' PROVE n \in heard'
  <1>1. ASSUME NEW u \in User, RemoveNote(u) PROVE n \in heard'
    <2>1. n = InstallNote(job[u].iccid) /\ heard' = heard
      BY <1>1 DEF RemoveNote, serverVars
    <2>2. InstallNote(job[u].iccid) \in heard
      BY <1>1 DEF RemoveNote, EsimInv, RemovesWhatWasHeard
    <2> QED
      BY <2>1, <2>2
  <1>2. ASSUME NEW u \in User, StartJob(u) \/ OpenChannel(u) \/ ReadCard(u) \/ CloseChannel(u)
                  \/ ReadCardBack(u) \/ ReportInventory(u) \/ InitiateOnly(u)
        PROVE  FALSE
    BY <1>2 DEF StartJob, OpenChannel, ReadCard, CloseChannel, ReadCardBack, ReportInventory,
                InitiateOnly, cardVars
  <1>3. ASSUME NEW u \in User, Execute(u) \/ LoadPackage(u) PROVE FALSE
    BY <1>3 DEF Execute, CardEffect, LoadPackage, cardVars
  <1>4. ASSUME NEW u \in User,
               \/ BeforeDownload(u) \/ AuthenticateServer(u) \/ AuthenticateClient(u)
               \/ CancelCard(u) \/ JudgeMetadata(u) \/ GiveBack(u) \/ PrepareDownload(u)
               \/ BindPackage(u) \/ NotifyServer(u) \/ AfterDownload(u)
        PROVE  FALSE
    BY <1>4 DEF BeforeDownload, AuthenticateServer, AuthenticateClient, CancelCard, JudgeMetadata,
                GiveBack, PrepareDownload, BindPackage, NotifyServer, AfterDownload, cardVars
  <1>5. CASE Refreshed \/ EsimStop
    BY <1>5 DEF Refreshed, EsimStop, cardVars
  <1> QED
    BY <1>1, <1>2, <1>3, <1>4, <1>5 DEF EsimNext

\* Whatever exchange fails, with the card or with the SM-DP+, and wherever the
\* agent stops: a notification leaves the card only after the server has it,
\* and an inventory that is sent names every profile the card held when it was
\* read.  For any set of profiles and any limits (run_download, inventory_json).
THEOREM CardAlwaysToldWhole == EsimSpec => CardToldWhole
  <1>1. EsimInv /\ [EsimNext]_esimVars => [\A n \in owed : n \notin owed' => n \in heard']_esimVars
    BY NoteKept
  <1>2. EsimInv => InventoryWhole
    BY DEF EsimInv
  <1> QED
    BY <1>1, <1>2, EsimInitially, EsimStep, PTL DEF EsimSpec, CardToldWhole, NotificationKept

-----------------------------------------------------------------------------
(* The radio *)

\* The steps of a restart, from the first request to come back up; those of
\* every operation that holds the arbiter; and those of a re-registration.
Climbing == {"wait", "rung1", "wait1", "rung2", "wait2", "rung3", "rung3b", "wait3",
             "read_back", "judge", "card"}
Holding == {"restart", "down", "up", "rotate", "rotate_up", "rotate_again"} \cup Climbing
Reregistering == {"detach", "attach", "camp"}

Seen == [down : BOOLEAN, cfun : {0, 1, 4, 7, NoLine},
         mode : {Online, LowPower, "offline", "unreadable"}, unsettled : BOOLEAN]

\* What the module may be asked for.
Values == {0, 1, 4, 7}

RadioTypeOK ==
    /\ cfun \in Values
    /\ mode \in {Online, LowPower, "offline"}
    /\ pending \in Seq(Values)
    /\ pc \in [Caller -> Holding \cup Reregistering \cup {"idle"}]
    /\ noted \in [Caller -> Seen]
    /\ result = [c \in Caller |-> result[c]]

\* A restart and a rotation have the module to themselves.
HoldsAlone == \A c \in Caller : pc[c] \in Holding => lease = c

\* What a restart read of a module with nothing left to act on, the module
\* still is: nobody else can have asked it for anything since.
ReadingStands ==
    \A c \in Caller :
        /\ pc[c] \in {"judge", "card"} /\ ~noted[c].unsettled => pending = <<>>
        /\ pc[c] = "judge" /\ ~noted[c].unsettled /\ noted[c].cfun = 1 => cfun = 1
        /\ pc[c] = "judge" /\ ~noted[c].unsettled /\ noted[c].mode = Online => mode = Online
        /\ pc[c] = "card" /\ ~noted[c].unsettled => cfun = 1 /\ mode = Online

\* The panel does not re-register, so only the command thread can have taken
\* the selection away, and it does not wait for an operator while it has.
GivenBack ==
    /\ pc["panel"] \notin Reregistering
    /\ pc["command"] = "camp" => select # "off"

RadioInv == RadioTypeOK /\ HoldsAlone /\ ReadingStands /\ GivenBack

LEMMA ModeOfType == \A v : ModeOf(v) \in {Online, LowPower, "offline"}
  BY DEF ModeOf

LEMMA RadioInitially == RadioInit => RadioInv
  <1> SUFFICES ASSUME RadioInit PROVE RadioInv
    OBVIOUS
  <1>1. NothingSeen \in Seen
    BY DEF NothingSeen, Seen
  <1>2. RadioTypeOK
    BY <1>1, ModeOfType DEF RadioInit, RadioTypeOK, Seen, Values
  <1>3. HoldsAlone /\ ReadingStands /\ GivenBack
    BY DEF RadioInit, HoldsAlone, ReadingStands, GivenBack, Holding, Climbing,
           Reregistering, Caller
  <1> QED
    BY <1>2, <1>3 DEF RadioInv

\* While nobody holds the arbiter no restart or rotation is under way.
LEMMA NobodyHolding ==
  ASSUME RadioInv, lease = "free" PROVE \A c \in Caller : pc[c] \notin Holding
  BY DEF RadioInv, HoldsAlone, Caller

\* Nobody else holds it while one does.
LEMMA OthersNotHolding ==
  ASSUME RadioInv, NEW c \in Caller, pc[c] \in Holding
  PROVE  /\ lease = c
         /\ \A d \in Caller \ {c} : pc[d] \notin Holding
  BY DEF RadioInv, HoldsAlone

LEMMA StepsApart ==
  /\ Climbing \subseteq Holding
  /\ "idle" \notin Holding /\ "idle" \notin Reregistering
  /\ Holding \cap Reregistering = {}
  /\ "judge" \in Climbing /\ "card" \in Climbing
  BY DEF Climbing, Holding, Reregistering

\* A step that moves one caller on to s, with the module in its hands.
LEMMA HolderMovesOn ==
  ASSUME RadioInv, NEW c \in Caller, pc[c] \in Holding, NEW s \in Holding,
         Goes(c, s), UNCHANGED select,
         cfun' \in Values, mode' \in {Online, LowPower, "offline"},
         pending' \in Seq(Values), noted' \in [Caller -> Seen],
         s \in {"judge", "card"} /\ ~noted'[c].unsettled => pending' = <<>>,
         s = "judge" /\ ~noted'[c].unsettled => /\ noted'[c].cfun = 1 => cfun' = 1
                                                /\ noted'[c].mode = Online => mode' = Online,
         s = "card" /\ ~noted'[c].unsettled => cfun' = 1 /\ mode' = Online
  PROVE  RadioInv'
  <1>1. lease = c /\ lease' = c /\ \A d \in Caller \ {c} : pc[d] \notin Holding
    BY OthersNotHolding DEF Goes
  <1>2. pc'[c] = s /\ \A d \in Caller \ {c} : pc'[d] = pc[d]
    BY DEF Goes, RadioInv, RadioTypeOK
  <1>3. RadioTypeOK'
    BY DEF Goes, RadioInv, RadioTypeOK
  <1>4. HoldsAlone'
    BY <1>1, <1>2 DEF HoldsAlone
  <1>6. ReadingStands'
    BY <1>1, <1>2, StepsApart DEF ReadingStands
  <1>7. GivenBack'
    BY <1>1, <1>2, StepsApart DEF GivenBack, RadioInv, Caller, Reregistering
  <1> QED
    BY <1>3, <1>4, <1>6, <1>7 DEF RadioInv

\* A step that ends an operation.
LEMMA HolderEnds ==
  ASSUME RadioInv, NEW c \in Caller, pc[c] \in Holding, NEW code, Ends(c, code),
         UNCHANGED select,
         cfun' \in Values, mode' \in {Online, LowPower, "offline"},
         pending' \in Seq(Values), noted' \in [Caller -> Seen]
  PROVE  RadioInv'
  <1>1. \A d \in Caller \ {c} : pc[d] \notin Holding
    BY OthersNotHolding
  <1>2. pc'[c] = "idle" /\ \A d \in Caller \ {c} : pc'[d] = pc[d]
    BY DEF Ends, RadioInv, RadioTypeOK
  <1>3. \A d \in Caller : pc'[d] \notin Holding
    BY <1>1, <1>2, StepsApart
  <1>4. RadioTypeOK'
    <2>1. pc' \in [Caller -> Holding \cup Reregistering \cup {"idle"}]
      BY DEF Ends, RadioInv, RadioTypeOK
    <2>2. result' = [x \in Caller |-> result'[x]]
      BY DEF Ends, RadioInv, RadioTypeOK
    <2> QED
      BY <2>1, <2>2 DEF RadioTypeOK
  <1>5. HoldsAlone' /\ ReadingStands'
    BY <1>3, StepsApart DEF HoldsAlone, ReadingStands
  <1>6. GivenBack'
    BY <1>1, <1>2, StepsApart DEF GivenBack, RadioInv, Caller, Reregistering
  <1> QED
    BY <1>4, <1>5, <1>6 DEF RadioInv

\* A request leaves the module with a value it can have.
LEMMA ModeAsked ==
  ASSUME RadioInv, NEW m \in {Online, LowPower}, NEW ok, SetOperatingMode(m, ok)
  PROVE  /\ cfun' = cfun /\ mode' = mode /\ select' = select
         /\ cfun' \in Values /\ mode' \in {Online, LowPower, "offline"}
         /\ pending' \in Seq(Values)
  BY DEF SetOperatingMode, Accepts, CfunOf, Values, RadioInv, RadioTypeOK

LEMMA FullAsked ==
  ASSUME RadioInv, NEW v \in Values, NEW answer, WriteFunctionality(v, answer)
  PROVE  /\ select' = select /\ pending' \in Seq(Values)
         /\ cfun' \in Values /\ mode' \in {Online, LowPower, "offline"}
  BY DEF WriteFunctionality, Accepts, RadioInv, RadioTypeOK

LEMMA ModuleStill ==
  ASSUME RadioInv, UNCHANGED moduleVars
  PROVE  /\ cfun' = cfun /\ mode' = mode /\ pending' = pending /\ select' = select
         /\ cfun \in Values /\ mode \in {Online, LowPower, "offline"}
         /\ pending \in Seq(Values) /\ noted \in [Caller -> Seen]
  BY DEF moduleVars, RadioInv, RadioTypeOK

LEMMA RestartBegins ==
  ASSUME RadioInv, NEW c \in Caller, ReadBefore(c) \/ GoDown(c) PROVE RadioInv'
  <1>1. noted' \in [Caller -> Seen]
    BY DEF ReadBefore, GoDown, RadioInv, RadioTypeOK
  <1>2. {"restart", "down", "up"} \subseteq Holding \ Climbing
    BY DEF Holding, Climbing
  <1>3. CASE ReadBefore(c)
    <2>1. pc[c] \in Holding /\ UNCHANGED moduleVars
      BY <1>2, <1>3 DEF ReadBefore, AtStep
    <2>2. CASE Goes(c, "down")
      BY <1>1, <1>2, <2>1, <2>2, ModuleStill, StepsApart, HolderMovesOn
    <2>3. ASSUME NEW code, Ends(c, code) PROVE RadioInv'
      BY <1>1, <2>1, <2>3, ModuleStill, HolderEnds
    <2> QED
      BY <1>3, <2>2, <2>3 DEF ReadBefore
  <1>4. CASE GoDown(c)
    <2>1. pc[c] \in Holding
      BY <1>2, <1>4 DEF GoDown, AtStep
    <2>2. PICK ok \in BOOLEAN : /\ SetOperatingMode(LowPower, ok)
                                /\ IF ok THEN Goes(c, "up") ELSE Ends(c, "restart_port_lost")
      BY <1>4 DEF GoDown
    <2>3. CASE ok
      BY <1>1, <1>2, <2>1, <2>2, <2>3, ModeAsked, StepsApart, HolderMovesOn
    <2>4. CASE ~ok
      BY <1>1, <2>1, <2>2, <2>4, ModeAsked, HolderEnds
    <2> QED
      BY <2>3, <2>4
  <1> QED
    BY <1>3, <1>4

\* A rung of the climb: it goes on to another step of the climb, not yet to
\* the judgement.
LEMMA ClimbsOn ==
  ASSUME RadioInv, NEW c \in Caller, pc[c] \in Holding, NEW s \in Climbing \ {"judge", "card"},
         Goes(c, s), UNCHANGED <<select, noted>>,
         cfun' \in Values, mode' \in {Online, LowPower, "offline"},
         pending' \in Seq(Values)
  PROVE  RadioInv'
  <1>1. noted' \in [Caller -> Seen]
    BY DEF RadioInv, RadioTypeOK
  <1>2. s \in Holding
    BY StepsApart
  <1> QED
    BY <1>1, <1>2, HolderMovesOn

LEMMA AsksOnline ==
  ASSUME RadioInv, NEW c \in Caller, NEW from \in Holding,
         NEW waits \in Climbing \ {"judge", "card"}, NEW next \in Climbing \ {"judge", "card"},
         AskOnline(c, from, waits, next)
  PROVE  RadioInv'
  <1>1. pc[c] \in Holding
    BY DEF AskOnline, AtStep
  <1>2. PICK ok \in BOOLEAN : SetOperatingMode(Online, ok) /\ Goes(c, IF ok THEN waits ELSE next)
    BY DEF AskOnline
  <1>3. PICK s \in Climbing \ {"judge", "card"} : Goes(c, s)
    BY <1>2
  <1> QED
    BY <1>1, <1>2, <1>3, ModeAsked, ClimbsOn DEF AskOnline

LEMMA AsksFull ==
  ASSUME RadioInv, NEW c \in Caller, NEW from \in Climbing,
         NEW waits \in Climbing \ {"judge", "card"}, NEW next \in Climbing \ {"judge", "card"},
         AskFull(c, from, waits, next)
  PROVE  RadioInv'
  <1>1. pc[c] \in Holding /\ pc[c] \in Climbing /\ UNCHANGED noted
    BY StepsApart DEF AskFull, AtStep
  <1>2. "read_back" \in Climbing \ {"judge", "card"}
    BY DEF Climbing
  <1>3. PICK answer \in {"ok", "refused", "lost"}, s \in Climbing \ {"judge", "card"} : WriteFunctionality(1, answer) /\ Goes(c, s)
    BY <1>2 DEF AskFull
  <1> QED
    BY <1>1, <1>3, FullAsked, ClimbsOn DEF Values

LEMMA WaitsForFull ==
  ASSUME RadioInv, NEW c \in Caller, NEW from \in Climbing,
         NEW next \in Climbing \ {"judge", "card"}, WaitForFull(c, from, next)
  PROVE  RadioInv'
  <1>1. pc[c] \in Holding /\ pc[c] \in Climbing /\ UNCHANGED <<moduleVars, noted>>
    BY StepsApart DEF WaitForFull, AtStep
  <1>2. "read_back" \in Climbing \ {"judge", "card"}
    BY DEF Climbing
  <1>3. PICK s \in Climbing \ {"judge", "card"} : Goes(c, s)
    BY <1>2 DEF WaitForFull
  <1> QED
    BY <1>1, <1>3, ModuleStill, ClimbsOn

LEMMA AsksMinimum ==
  ASSUME RadioInv, NEW c \in Caller, AskMinimum(c) PROVE RadioInv'
  <1>1. {"rung3", "rung3b", "read_back"} \subseteq Climbing \ {"judge", "card"}
    BY DEF Climbing
  <1>2. pc[c] \in Holding /\ pc[c] \in Climbing /\ UNCHANGED noted
    BY <1>1, StepsApart DEF AskMinimum, AtStep
  <1>3. PICK answer \in {"ok", "refused", "lost"}, s \in Climbing \ {"judge", "card"} : WriteFunctionality(0, answer) /\ Goes(c, s)
    BY <1>1 DEF AskMinimum
  <1> QED
    BY <1>2, <1>3, FullAsked, ClimbsOn DEF Values

LEMMA Climbs ==
  ASSUME RadioInv, NEW c \in Caller, ClimbBack(c) PROVE RadioInv'
  <1>1. {"wait", "rung1", "wait1", "rung2", "wait2", "rung3", "rung3b", "wait3", "read_back"}
           \subseteq Climbing \ {"judge", "card"}
    BY DEF Climbing
  <1>2. "up" \in Holding /\ Climbing \subseteq Holding
    BY DEF Holding
  <1>3. CASE AskOnline(c, "up", "wait", "rung1")
    BY <1>1, <1>2, <1>3, AsksOnline
  <1>4. CASE AskOnline(c, "rung1", "wait1", "rung2")
    BY <1>1, <1>2, <1>4, AsksOnline
  <1>5. CASE \/ WaitForFull(c, "wait", "rung1") \/ WaitForFull(c, "wait1", "rung2")
             \/ WaitForFull(c, "wait2", "rung3") \/ WaitForFull(c, "wait3", "read_back")
    BY <1>1, <1>5, WaitsForFull
  <1>6. CASE AskFull(c, "rung2", "wait2", "rung3") \/ AskFull(c, "rung3b", "wait3", "read_back")
    BY <1>1, <1>6, AsksFull
  <1>7. CASE AskMinimum(c)
    BY <1>7, AsksMinimum
  <1> QED
    BY <1>3, <1>4, <1>5, <1>6, <1>7 DEF ClimbBack

\* The two readings are of the module as it is then.
LEMMA ReadsBack ==
  ASSUME RadioInv, NEW c \in Caller, ReadBack(c) PROVE RadioInv'
  <1>1. "read_back" \in Climbing /\ "read_back" \in Holding /\ "judge" \in Holding
    BY DEF Climbing, Holding
  <1>2. pc[c] \in Holding /\ pc[c] \in Climbing /\ UNCHANGED moduleVars
    BY <1>1 DEF ReadBack, AtStep
  <1>3. CASE Ends(c, "restart_port_lost") /\ UNCHANGED noted
    BY <1>2, <1>3, ModuleStill, HolderEnds
  <1>4. CASE ~(Ends(c, "restart_port_lost") /\ UNCHANGED noted)
    <2>1. PICK line \in {cfun, NoLine}, seen \in {mode, "unreadable"} :
             noted' = [noted EXCEPT ![c] = [down |-> @.down, cfun |-> line, mode |-> seen,
                                            unsettled |-> pending # <<>>]]
      BY <1>4 DEF ReadBack
    <2>2. Goes(c, "judge")
      BY <1>4 DEF ReadBack
    <2> DEFINE i == [down |-> noted[c].down, cfun |-> line, mode |-> seen,
                     unsettled |-> pending # <<>>]
    <2>3. line \in {0, 1, 4, 7, NoLine} /\ seen \in {Online, LowPower, "offline", "unreadable"}
      BY DEF RadioInv, RadioTypeOK, Values
    <2>4. noted[c] \in Seen
      BY DEF RadioInv, RadioTypeOK
    <2>5. /\ i \in Seen /\ i.cfun = line /\ i.mode = seen
          /\ ~i.unsettled => pending = <<>>
      BY <2>3, <2>4 DEF Seen
    <2>6. noted' = [noted EXCEPT ![c] = i]
      BY <2>1 DEF RadioInv, RadioTypeOK
    <2> HIDE DEF i
    <2>8. noted' \in [Caller -> Seen] /\ noted'[c] = i
      BY <2>5, <2>6 DEF RadioInv, RadioTypeOK
    <2>9. ~noted'[c].unsettled => pending' = <<>>
      BY <1>2, <2>5, <2>8 DEF moduleVars
    <2>10. noted'[c].cfun = 1 => cfun' = 1
      BY <1>2, <2>5, <2>8 DEF moduleVars, NoLine
    <2>11. noted'[c].mode = Online => mode' = Online
      BY <1>2, <2>5, <2>8 DEF moduleVars, Online
    <2> QED
      BY <1>1, <1>2, <2>2, <2>8, <2>9, <2>10, <2>11, ModuleStill, HolderMovesOn
  <1> QED
    BY <1>3, <1>4

LEMMA JudgesRight ==
  ASSUME RadioInv, NEW c \in Caller, JudgeRestart(c) PROVE RadioInv'
  <1>1. "judge" \in Climbing /\ "judge" \in Holding /\ "card" \in Holding
    BY DEF Climbing, Holding
  <1>2. pc[c] = "judge" /\ pc[c] \in Holding /\ UNCHANGED moduleVars /\ UNCHANGED noted
    BY <1>1 DEF JudgeRestart, AtStep
  <1>3. ASSUME NEW code, Ends(c, code) PROVE RadioInv'
    BY <1>2, <1>3, ModuleStill, HolderEnds
  <1>4. noted[c].cfun \in {0, 1, 4, 7, NoLine}
    BY DEF RadioInv, RadioTypeOK, Seen
  <1>5. CASE Goes(c, "card") /\ noted[c].cfun \notin {0, 4, 7, NoLine}
             /\ ~(noted[c].cfun = 1 /\ noted[c].mode # Online)
    <2>1. noted[c].cfun = 1 /\ noted[c].mode = Online
      BY <1>4, <1>5
    <2>2. ~noted'[c].unsettled => cfun' = 1 /\ mode' = Online
      BY <1>2, <2>1 DEF moduleVars, RadioInv, ReadingStands
    <2>3. ~noted'[c].unsettled => pending' = <<>>
      BY <1>1, <1>2 DEF moduleVars, RadioInv, ReadingStands
    <2> QED
      BY <1>1, <1>2, <1>5, <2>2, <2>3, ModuleStill, HolderMovesOn
  <1> QED
    BY <1>3, <1>5 DEF JudgeRestart

LEMMA WaitsForCard ==
  ASSUME RadioInv, NEW c \in Caller, WaitForCard(c) PROVE RadioInv'
  <1>1. pc[c] \in Holding /\ UNCHANGED moduleVars /\ UNCHANGED noted
    BY DEF WaitForCard, AtStep, Holding, Climbing
  <1>2. PICK code : Ends(c, code)
    BY DEF WaitForCard
  <1> QED
    BY <1>1, <1>2, ModuleStill, HolderEnds

LEMMA Rotates ==
  ASSUME RadioInv, NEW c \in Caller, RotateDown(c) \/ RotateUp(c) PROVE RadioInv'
  <1>1. {"rotate", "rotate_up", "rotate_again"} \subseteq Holding \ Climbing
    BY DEF Holding, Climbing
  <1>2. pc[c] \in Holding
    BY <1>1 DEF RotateDown, RotateUp, AtStep
  <1>3. CASE RotateDown(c)
    <2>1. PICK ok \in BOOLEAN : /\ SetOperatingMode(LowPower, ok)
                                /\ noted' = [noted EXCEPT ![c].down = ok]
      BY <1>3 DEF RotateDown
    <2>2. [noted[c] EXCEPT !.down = ok] \in Seen
      BY DEF Seen, RadioInv, RadioTypeOK
    <2>3. noted' \in [Caller -> Seen]
      BY <2>1, <2>2 DEF RadioInv, RadioTypeOK
    <2> QED
      BY <1>1, <1>2, <1>3, <2>1, <2>3, ModeAsked, StepsApart, HolderMovesOn DEF RotateDown
  <1>4. CASE RotateUp(c)
    <2>1. noted' \in [Caller -> Seen]
      BY <1>4 DEF RotateUp, RadioInv, RadioTypeOK
    <2>2. PICK ok \in BOOLEAN :
             /\ SetOperatingMode(Online, ok)
             /\ Goes(c, "rotate_again") \/ \E code : Ends(c, code)
      BY <1>4 DEF RotateUp, RotateOutcome
    <2>3. CASE Goes(c, "rotate_again")
      BY <1>1, <1>2, <2>1, <2>2, <2>3, ModeAsked, StepsApart, HolderMovesOn
    <2>4. CASE \E code : Ends(c, code)
      BY <1>2, <2>1, <2>2, <2>4, ModeAsked, HolderEnds
    <2> QED
      BY <2>2, <2>3, <2>4
  <1> QED
    BY <1>3, <1>4

\* A step taken while nobody has the arbiter, that moves one caller among the
\* steps that need none, or nobody at all.
LEMMA FreeStep ==
  ASSUME RadioInv, lease = "free", lease' = "free", NEW c \in Caller,
         NEW s \in Reregistering \cup {"idle"},
         pc' \in {pc, [pc EXCEPT ![c] = s]}, s \in Reregistering => c = "command",
         cfun' \in Values, mode' \in {Online, LowPower, "offline"},
         pending' \in Seq(Values), noted' \in [Caller -> Seen],
         result' = [x \in Caller |-> result'[x]],
         pc'["command"] = "camp" => select' # "off"
  PROVE  RadioInv'
  <1>1. \A d \in Caller : pc[d] \notin Holding
    BY NobodyHolding
  <1>2. s \notin Holding /\ pc' \in [Caller -> Holding \cup Reregistering \cup {"idle"}]
    BY StepsApart DEF RadioInv, RadioTypeOK
  <1>3. \A d \in Caller : pc'[d] \notin Holding
    BY <1>1, <1>2 DEF RadioInv, RadioTypeOK
  <1>4. RadioTypeOK'
    BY <1>2 DEF RadioTypeOK
  <1>5. HoldsAlone' /\ ReadingStands'
    BY <1>3, StepsApart DEF HoldsAlone, ReadingStands
  <1>6. pc'["panel"] \notin Reregistering
    BY StepsApart DEF RadioInv, RadioTypeOK, GivenBack, Caller
  <1> QED
    BY <1>4, <1>5, <1>6 DEF RadioInv, GivenBack

LEMMA ResultKept ==
  ASSUME RadioInv, NEW c \in Caller, NEW code,
         result' \in {result, [result EXCEPT ![c] = code]}
  PROVE  result' = [x \in Caller |-> result'[x]]
  BY DEF RadioInv, RadioTypeOK

LEMMA OneExchange ==
  ASSUME RadioInv, NEW c \in Caller, SetRadio(c) \/ SelectOperator(c) \/ TypedAt(c)
  PROVE  RadioInv'
  <1>1. lease = "free" /\ lease' = "free" /\ pc[c] = "idle" /\ pc' = pc /\ noted' \in [Caller -> Seen]
    BY DEF SetRadio, SelectOperator, TypedAt, RadioInv, RadioTypeOK
  <1>2. result' = [x \in Caller |-> result'[x]]
    <2>1. PICK code : result' \in {result, [result EXCEPT ![c] = code]}
      BY DEF SetRadio, SelectOperator, TypedAt
    <2> QED
      BY <2>1, ResultKept
  <1>3. /\ cfun' \in Values /\ mode' \in {Online, LowPower, "offline"}
        /\ pending' \in Seq(Values)
        /\ select' = select \/ select' # "off"
    <2>1. CASE SetRadio(c)
      <3>1. PICK up \in BOOLEAN, ok \in BOOLEAN :
               \/ SetOperatingMode(IF up THEN Online ELSE LowPower, ok)
               \/ \E answer : WriteFunctionality(RadioAtCommand(up), answer)
        BY <2>1 DEF SetRadio
      <3>2. ASSUME NEW answer, WriteFunctionality(RadioAtCommand(up), answer)
            PROVE  /\ cfun' \in Values /\ mode' \in {Online, LowPower, "offline"}
                   /\ pending' \in Seq(Values) /\ select' = select
        BY <3>2, FullAsked DEF Values, RadioAtCommand
      <3>3. CASE SetOperatingMode(IF up THEN Online ELSE LowPower, ok)
        BY <3>3, ModeAsked
      <3> QED
        BY <3>1, <3>2, <3>3
    <2>2. CASE SelectOperator(c)
      BY <2>2 DEF SelectOperator, Cops, RadioInv, RadioTypeOK
    <2>3. CASE TypedAt(c)
      <3>1. CASE WriteFunctionality(7, "ok")
        BY <3>1, FullAsked DEF Values
      <3> QED
        BY <2>3, <3>1 DEF TypedAt, Cops, RadioInv, RadioTypeOK
    <2> QED
      BY <2>1, <2>2, <2>3
  <1>4. pc'["command"] = "camp" => select' # "off"
    BY <1>1, <1>3 DEF RadioInv, GivenBack
  <1>5. "idle" \notin Reregistering
    BY StepsApart
  <1> QED
    BY <1>1, <1>2, <1>3, <1>4, <1>5, FreeStep

LEMMA Reregisters ==
  ASSUME RadioInv, NEW c \in Caller, Detach(c) \/ Attach(c) \/ AwaitOperator(c)
  PROVE  RadioInv'
  <1>1. pc[c] \in Reregistering /\ c = "command"
    BY DEF Detach, Attach, AwaitOperator, AtStep, Reregistering, RadioInv, GivenBack, Caller
  <1>2. lease = "free" /\ lease' = "free" /\ noted' \in [Caller -> Seen]
    BY DEF Detach, Attach, AwaitOperator, Goes, Ends, RadioInv, RadioTypeOK
  <1>3. /\ cfun' \in Values /\ mode' \in {Online, LowPower, "offline"}
        /\ pending' \in Seq(Values)
    BY DEF Detach, Attach, AwaitOperator, Cops, moduleVars, RadioInv, RadioTypeOK
  <1>4. PICK code : result' \in {result, [result EXCEPT ![c] = code]}
    BY DEF Detach, Attach, AwaitOperator, Goes, Ends
  <1>5. result' = [x \in Caller |-> result'[x]]
    BY <1>4, ResultKept
  <1>6. PICK s \in Reregistering \cup {"idle"} :
           pc' = [pc EXCEPT ![c] = s] /\ (s = "camp" => select' # "off")
    BY DEF Detach, Attach, AwaitOperator, Goes, Ends, Reregistering, Cops
  <1>7. pc'["command"] = "camp" => select' # "off"
    BY <1>1, <1>6 DEF RadioInv, RadioTypeOK
  <1> QED
    BY <1>1, <1>2, <1>3, <1>5, <1>6, <1>7, FreeStep

LEMMA OperationStarts ==
  ASSUME RadioInv, NEW c \in Caller, StartsHolding(c) \/ StartsReregister(c)
  PROVE  RadioInv'
  <1>1. NothingSeen \in Seen
    BY DEF NothingSeen, Seen
  <1>2. {"restart", "rotate"} \subseteq Holding \ Climbing /\ "detach" \in Reregistering \ {"camp"}
    BY DEF Holding, Climbing, Reregistering
  <1>3. PICK s \in {"restart", "rotate", "detach"} :
           /\ Starts(c, s)
           /\ s = "detach" => c = "command" /\ lease' = lease
           /\ s # "detach" => lease = "free" /\ lease' = c
    BY DEF StartsHolding, StartsReregister
  <1>4. pc[c] = "idle" /\ pc' = [pc EXCEPT ![c] = s] /\ UNCHANGED moduleVars
    BY <1>3 DEF Starts
  <1>5. pc'[c] = s /\ \A d \in Caller \ {c} : pc'[d] = pc[d]
    BY <1>4 DEF RadioInv, RadioTypeOK
  <1>6. noted' = [noted EXCEPT ![c] = NothingSeen] /\ result' = [result EXCEPT ![c] = "none"]
    BY <1>3 DEF Starts
  <1>7. result' = [x \in Caller |-> result'[x]]
    BY <1>6 DEF RadioInv, RadioTypeOK
  <1>8. noted' \in [Caller -> Seen] /\ \A d \in Caller \ {c} : noted'[d] = noted[d]
    BY <1>1, <1>6 DEF RadioInv, RadioTypeOK
  <1>9. RadioTypeOK'
    BY <1>2, <1>4, <1>7, <1>8, ModuleStill DEF RadioTypeOK, RadioInv
  <1>10. s \notin Climbing
    BY <1>2, StepsApart
  <1>11. HoldsAlone'
    <2>1. CASE s = "detach"
      BY <1>2, <1>3, <1>5, <2>1, StepsApart DEF HoldsAlone, RadioInv
    <2>2. CASE s # "detach"
      BY <1>3, <1>5, <2>2, NobodyHolding DEF HoldsAlone
    <2> QED
      BY <2>1, <2>2
  <1>13. ReadingStands'
    BY <1>4, <1>5, <1>8, <1>10, StepsApart DEF ReadingStands, RadioInv, moduleVars
  <1>14. GivenBack'
    BY <1>2, <1>3, <1>4, <1>5, StepsApart DEF GivenBack, RadioInv, moduleVars, Caller
  <1> QED
    BY <1>9, <1>11, <1>13, <1>14 DEF RadioInv

\* The module itself acts only while it has something to act on, and then
\* nobody is counting on what was read.
LEMMA ModuleActs == RadioInv /\ ActsOnIt => RadioInv'
  <1> SUFFICES ASSUME RadioInv, ActsOnIt PROVE RadioInv'
    OBVIOUS
  <1>1. Head(pending) \in Values /\ Tail(pending) \in Seq(Values)
    BY DEF ActsOnIt, RadioInv, RadioTypeOK
  <1>2. cfun' \in Values /\ mode' \in {Online, LowPower, "offline"}
    BY <1>1, ModeOfType DEF ActsOnIt, RadioInv, RadioTypeOK
  <1>3. RadioTypeOK'
    BY <1>1, <1>2 DEF ActsOnIt, RadioInv, RadioTypeOK
  <1>4. HoldsAlone' /\ GivenBack'
    BY DEF ActsOnIt, RadioInv, HoldsAlone, GivenBack
  <1>5. ReadingStands'
    BY DEF ActsOnIt, RadioInv, ReadingStands
  <1> QED
    BY <1>3, <1>4, <1>5 DEF RadioInv

LEMMA RadioStep == RadioInv /\ [RadioNext]_radioVars => RadioInv'
  <1> SUFFICES ASSUME RadioInv, [RadioNext]_radioVars PROVE RadioInv'
    OBVIOUS
  <1>1. CASE ActsOnIt
    BY <1>1, ModuleActs
  <1>2. CASE CardAndNetwork
    BY <1>2 DEF CardAndNetwork, RadioInv, RadioTypeOK, HoldsAlone, ReadingStands, GivenBack
  <1>3. CASE RadioStop
    <2>1. NothingSeen \in Seen
      BY DEF NothingSeen, Seen
    <2>2. RadioTypeOK'
      BY <1>3, <2>1, ModuleStill DEF RadioStop, RadioInv, RadioTypeOK
    <2>3. \A c \in Caller : pc'[c] = "idle"
      BY <1>3 DEF RadioStop
    <2>4. HoldsAlone' /\ ReadingStands' /\ GivenBack'
      BY <2>3, StepsApart DEF HoldsAlone, ReadingStands, GivenBack, Caller
    <2> QED
      BY <2>2, <2>4 DEF RadioInv
  <1>4. ASSUME NEW c \in Caller,
               \/ StartsHolding(c) \/ ReadBefore(c) \/ GoDown(c) \/ ClimbBack(c)
               \/ ReadBack(c) \/ JudgeRestart(c) \/ WaitForCard(c) \/ RotateDown(c) \/ RotateUp(c)
        PROVE  RadioInv'
    BY <1>4, OperationStarts, RestartBegins, Climbs, ReadsBack, JudgesRight, WaitsForCard, Rotates
  <1>5. ASSUME NEW c \in Caller,
               \/ SetRadio(c) \/ StartsReregister(c) \/ Detach(c) \/ Attach(c)
               \/ AwaitOperator(c) \/ SelectOperator(c) \/ TypedAt(c)
        PROVE  RadioInv'
    BY <1>5, OperationStarts, OneExchange, Reregisters
  <1>6. ASSUME NEW c \in Caller, NEW s, Ussd(c, s) PROVE RadioInv'
    BY <1>6 DEF Ussd, RadioInv, RadioTypeOK, HoldsAlone, ReadingStands, GivenBack
  <1>7. CASE UNCHANGED radioVars
    BY <1>7 DEF radioVars, RadioInv, RadioTypeOK, HoldsAlone, ReadingStands, GivenBack
  <1> QED
    BY <1>1, <1>2, <1>3, <1>4, <1>5, <1>6, <1>7 DEF RadioNext

\* What a report of c's says of the module.
Truthful(c) ==
    /\ Reports(c, {"restart_ok", "restart_card_not_ready"})
          => (cfun = 1 /\ mode = Online) \/ noted[c].unsettled
    /\ Reports(c, {"restart_ok"}) => cardState = "ready"
    /\ Reports(c, {"modem_already_stranded"}) => cfun = 7
    /\ Reports(c, {"rotate_ok", "rotate_failed"}) => told' = Online
    /\ Reports(c, {"registered", "not_registered"}) => select' # "off"

\* A step that does not bring c back to idle reports nothing of c's.
LEMMA NoReport ==
  ASSUME NEW c \in Caller, pc'[c] = pc[c] \/ pc'[c] # "idle" PROVE Truthful(c)
  BY DEF Truthful, Reports

LEMMA GoesReportsNothing ==
  ASSUME RadioInv, NEW c \in Caller, NEW d \in Caller, NEW s, s # "idle",
         pc' = [pc EXCEPT ![d] = s]
  PROVE  Truthful(c)
  BY NoReport DEF RadioInv, RadioTypeOK

\* An operation that ends with a code reports that code.
LEMMA EndsTruthfully ==
  ASSUME RadioInv, NEW c \in Caller, NEW d \in Caller, NEW code, Ends(d, code),
         code \in {"restart_ok", "restart_card_not_ready"}
           => (cfun = 1 /\ mode = Online) \/ noted[d].unsettled,
         code = "restart_ok" => cardState = "ready",
         code = "modem_already_stranded" => cfun = 7,
         code \in {"rotate_ok", "rotate_failed"} => told' = Online,
         code \in {"registered", "not_registered"} => select' # "off"
  PROVE  Truthful(c)
  <1>1. CASE c # d
    <2>1. pc'[c] = pc[c]
      BY <1>1 DEF Ends, RadioInv, RadioTypeOK
    <2> QED
      BY <2>1, NoReport
  <1>2. CASE c = d
    <2>1. result'[c] = code
      BY <1>2 DEF Ends, RadioInv, RadioTypeOK
    <2> QED
      BY <1>2, <2>1 DEF Truthful, Reports
  <1> QED
    BY <1>1, <1>2

LEMMA RestartsTruthfully ==
  ASSUME RadioInv, NEW c \in Caller, NEW d \in Caller,
         ReadBefore(d) \/ GoDown(d) \/ ReadBack(d) \/ JudgeRestart(d) \/ WaitForCard(d)
  PROVE  Truthful(c)
  <1>1. ASSUME NEW s \in {"down", "up", "judge", "card"}, Goes(d, s) PROVE Truthful(c)
    BY <1>1, GoesReportsNothing DEF Goes
  <1>2. ASSUME NEW code \in {"restart_unverifiable", "restart_port_lost",
                             "modem_stranded_offline", "restart_not_restored"}, Ends(d, code)
        PROVE  Truthful(c)
    BY <1>2, EndsTruthfully
  <1>3. CASE cfun = 7 /\ Ends(d, "modem_already_stranded")
    BY <1>3, EndsTruthfully
  <1>4. CASE WaitForCard(d) /\ Ends(d, IF cardState = "ready" THEN "restart_ok"
                                                             ELSE "restart_card_not_ready")
    <2>1. (cfun = 1 /\ mode = Online) \/ noted[d].unsettled
      BY <1>4 DEF WaitForCard, AtStep, RadioInv, ReadingStands
    <2>2. CASE cardState = "ready"
      BY <1>4, <2>1, <2>2, EndsTruthfully
    <2>3. CASE cardState # "ready"
      BY <1>4, <2>1, <2>3, EndsTruthfully
    <2> QED
      BY <2>2, <2>3
  <1>5. CASE ReadBefore(d)
    BY <1>1, <1>2, <1>3, <1>5 DEF ReadBefore
  <1>6. CASE GoDown(d)
    BY <1>1, <1>2, <1>6 DEF GoDown
  <1>7. CASE ReadBack(d)
    BY <1>1, <1>2, <1>7 DEF ReadBack
  <1>8. CASE JudgeRestart(d)
    BY <1>1, <1>2, <1>8 DEF JudgeRestart
  <1>9. CASE WaitForCard(d)
    BY <1>2, <1>4, <1>9 DEF WaitForCard
  <1> QED
    BY <1>5, <1>6, <1>7, <1>8, <1>9

LEMMA ClimbsTruthfully ==
  ASSUME RadioInv, NEW c \in Caller, NEW d \in Caller, ClimbBack(d) PROVE Truthful(c)
  <1>1. PICK s \in {"wait", "rung1", "wait1", "rung2", "wait2", "rung3", "rung3b", "wait3",
                    "read_back"} : Goes(d, s)
    BY DEF ClimbBack, AskOnline, AskFull, WaitForFull, AskMinimum
  <1> QED
    BY <1>1, GoesReportsNothing DEF Goes

\* The last request of a rotation that reports success was taken.
LEMMA RotatesTruthfully ==
  ASSUME RadioInv, NEW c \in Caller, NEW d \in Caller, RotateDown(d) \/ RotateUp(d)
  PROVE  Truthful(c)
  <1>1. CASE RotateDown(d)
    BY <1>1, GoesReportsNothing DEF RotateDown, Goes
  <1>2. CASE Goes(d, "rotate_again")
    BY <1>2, GoesReportsNothing DEF Goes
  <1>3. ASSUME SetOperatingMode(Online, TRUE), RotateOutcome(d, TRUE) PROVE Truthful(c)
    <2>1. told' = Online
      BY <1>3 DEF SetOperatingMode, Accepts, CfunOf, ModeOf, Online
    <2> QED
      BY <1>3, <2>1, EndsTruthfully DEF RotateOutcome
  <1>4. ASSUME RotateOutcome(d, FALSE) PROVE Truthful(c)
    BY <1>4, EndsTruthfully DEF RotateOutcome
  <1>5. CASE RotateUp(d)
    <2>1. \/ SetOperatingMode(Online, TRUE) /\ RotateOutcome(d, TRUE)
          \/ Goes(d, "rotate_again")
          \/ RotateOutcome(d, FALSE)
      BY <1>5 DEF RotateUp
    <2> QED
      BY <1>2, <1>3, <1>4, <2>1
  <1> QED
    BY <1>1, <1>5

LEMMA ReregistersTruthfully ==
  ASSUME RadioInv, NEW c \in Caller, NEW d \in Caller, Detach(d) \/ Attach(d) \/ AwaitOperator(d)
  PROVE  Truthful(c)
  <1>1. ASSUME NEW s \in {"attach", "camp"}, Goes(d, s) PROVE Truthful(c)
    BY <1>1, GoesReportsNothing DEF Goes
  <1>2. ASSUME NEW code \in {"at_rejected", "at_failed"}, Ends(d, code) PROVE Truthful(c)
    BY <1>2, EndsTruthfully
  <1>3. ASSUME NEW code \in {"registered", "not_registered"}, AwaitOperator(d), Ends(d, code)
        PROVE  Truthful(c)
    <2>1. pc[d] = "camp" /\ select' = select
      BY <1>3 DEF AwaitOperator, AtStep, moduleVars
    <2>2. select' # "off"
      BY <2>1 DEF RadioInv, GivenBack, Caller, Reregistering
    <2> QED
      BY <1>3, <2>2, EndsTruthfully
  <1> QED
    BY <1>1, <1>2, <1>3 DEF Detach, Attach, AwaitOperator

LEMMA RadioTruthful ==
  ASSUME RadioInv, RadioNext, NEW c \in Caller PROVE Truthful(c)
  <1>1. CASE ActsOnIt \/ CardAndNetwork
    BY <1>1, NoReport DEF ActsOnIt, CardAndNetwork
  <1>2. CASE RadioStop
    BY <1>2 DEF RadioStop, Truthful, Reports
  <1>3. ASSUME NEW d \in Caller, StartsHolding(d) \/ StartsReregister(d) PROVE Truthful(c)
    BY <1>3, GoesReportsNothing DEF StartsHolding, StartsReregister, Starts
  <1>4. ASSUME NEW d \in Caller, ReadBefore(d) \/ GoDown(d) \/ ReadBack(d) \/ JudgeRestart(d)
                  \/ WaitForCard(d) \/ ClimbBack(d)
        PROVE  Truthful(c)
    BY <1>4, RestartsTruthfully, ClimbsTruthfully
  <1>5. ASSUME NEW d \in Caller, RotateDown(d) \/ RotateUp(d) \/ Detach(d) \/ Attach(d)
                  \/ AwaitOperator(d)
        PROVE  Truthful(c)
    BY <1>5, RotatesTruthfully, ReregistersTruthfully
  <1>6. ASSUME NEW d \in Caller, SetRadio(d) \/ SelectOperator(d) \/ TypedAt(d)
                  \/ \E s \in {"start", "continue", "cancel"} : Ussd(d, s)
        PROVE  Truthful(c)
    BY <1>6, NoReport DEF SetRadio, SelectOperator, TypedAt, Ussd
  <1> QED
    BY <1>1, <1>2, <1>3, <1>4, <1>5, <1>6 DEF RadioNext

\* What an operation takes off the network it puts back, and what it says of
\* the module is so: a restart that reports success has the card ready and the
\* radio up by both accounts, or the module had requests open when they were
\* read; a rotation has the module told to come up; a re-registration gives
\* the selection back.  For any number of operations, with the panel's among
\* the cloud's, and for a module that acts on any number of requests after it
\* has answered them (restart_radio, rotate_cycle, reregister_network).
THEOREM AlwaysComesBack == RadioSpec => ComesBack
  <1> DEFINE Restarts == \A c \in Caller :
                /\ Reports(c, {"restart_ok", "restart_card_not_ready"})
                      => (cfun = 1 /\ mode = Online) \/ noted[c].unsettled
                /\ Reports(c, {"restart_ok"}) => cardState = "ready"
                /\ Reports(c, {"modem_already_stranded"}) => cfun = 7
             Rotation == \A c \in Caller :
                Reports(c, {"rotate_ok", "rotate_failed"}) => told' = Online
             Reattach == \A c \in Caller :
                Reports(c, {"registered", "not_registered"}) => select' # "off"
  <1>1. RadioInv /\ [RadioNext]_radioVars
          => [Restarts]_radioVars /\ [Rotation]_radioVars /\ [Reattach]_radioVars
    <2> SUFFICES ASSUME RadioInv, RadioNext PROVE Restarts /\ Rotation /\ Reattach
      OBVIOUS
    <2>1. \A c \in Caller : Truthful(c)
      BY RadioTruthful
    <2> QED
      BY <2>1 DEF Truthful
  <1> QED
    BY <1>1, RadioInitially, RadioStep, PTL
       DEF RadioSpec, ComesBack, RestartTruth, RotationComesBack, ReattachesAlways

-----------------------------------------------------------------------------
(* The data path *)

\* The library's induction theorems take an operator, which the provers cannot
\* instantiate: induction here is on the least counterexample.
LEMMA LeastOf ==
  ASSUME NEW S \in SUBSET Nat, S # {}
  PROVE  \E x \in S : \A y \in S : x <= y
  <1>1. PICK x \in S : \A y \in S : ~(<<y, x>> \in OpToRel(<, Nat))
    BY WFMin, NatLessThanWellFounded
  <1>2. \A y \in S : ~(y < x)
    BY <1>1 DEF OpToRel
  <1> QED
    BY <1>2

\* f follows the steps from link for the first n of them.
Follows(f, link, todo, n) ==
    f = [i \in 0..n |-> IF i = 0 THEN link ELSE RunStep(f[i - 1], todo[i])]

LEMMA StepsExist ==
  ASSUME NEW link, NEW todo, NEW n \in Nat
  PROVE  \E f : Follows(f, link, todo, n)
  <1> DEFINE Bad == {k \in Nat : ~\E f : Follows(f, link, todo, k)}
  <1>1. SUFFICES ASSUME Bad # {} PROVE FALSE
    OBVIOUS
  <1>2. PICK k \in Bad : \A y \in Bad : k <= y
    BY <1>1, LeastOf
  <1>3. k \in Nat /\ ~\E f : Follows(f, link, todo, k)
    BY <1>2
  <1>4. k # 0
    <2> DEFINE g == [i \in 0..0 |-> link]
    <2>1. Follows(g, link, todo, 0)
      BY DEF Follows
    <2> QED
      BY <1>3, <2>1
  <1>5. k - 1 \in Nat /\ k - 1 \notin Bad
    BY <1>2, <1>3, <1>4
  <1>6. PICK f : Follows(f, link, todo, k - 1)
    BY <1>5
  <1> DEFINE g == [i \in 0..k |-> IF i = k THEN RunStep(f[k - 1], todo[k]) ELSE f[i]]
  <1>7. \A i \in 0..k : g[i] = IF i = 0 THEN link ELSE RunStep(g[i - 1], todo[i])
    <2> SUFFICES ASSUME NEW i \in 0..k
                 PROVE  g[i] = IF i = 0 THEN link ELSE RunStep(g[i - 1], todo[i])
      OBVIOUS
    <2>1. CASE i = k
      <3>1. g[i] = RunStep(f[k - 1], todo[k]) /\ g[k - 1] = f[k - 1]
        BY <2>1, <1>3, <1>4
      <3> QED
        BY <2>1, <1>4, <3>1
    <2>2. CASE i # k
      <3>1. i \in 0..(k - 1) /\ g[i] = f[i]
        BY <2>2, <1>3
      <3>2. f[i] = IF i = 0 THEN link ELSE RunStep(f[i - 1], todo[i])
        BY <1>6, <3>1 DEF Follows
      <3>3. i # 0 => g[i - 1] = f[i - 1]
        BY <1>3, <2>2
      <3> QED
        BY <3>1, <3>2, <3>3
    <2> QED
      BY <2>1, <2>2
  <1>8. Follows(g, link, todo, k)
    <2>1. DOMAIN g = 0..k
      OBVIOUS
    <2>2. g = [i \in 0..k |-> g[i]]
      OBVIOUS
    <2> HIDE DEF g
    <2> QED
      BY <1>7, <2>2 DEF Follows
  <1> QED
    BY <1>3, <1>8

\* Steps is what its definition says: one step after the other.
LEMMA StepsFollow ==
  ASSUME NEW link, NEW todo, Len(todo) \in Nat
  PROVE  \E f : Follows(f, link, todo, Len(todo)) /\ \A k : Steps(link, todo, k) = f[k]
  <1> DEFINE after == CHOOSE f : f = [i \in 0..Len(todo) |->
                         IF i = 0 THEN link ELSE RunStep(f[i - 1], todo[i])]
  <1>1. \A k : Steps(link, todo, k) = after[k]
    BY DEF Steps
  <1>2. \E f : f = [i \in 0..Len(todo) |-> IF i = 0 THEN link ELSE RunStep(f[i - 1], todo[i])]
    <2>1. PICK g : Follows(g, link, todo, Len(todo))
      BY StepsExist
    <2>2. g = [i \in 0..Len(todo) |-> IF i = 0 THEN link ELSE RunStep(g[i - 1], todo[i])]
      BY <2>1 DEF Follows
    <2> QED
      BY <2>2, Zenon
  <1>3. after = [i \in 0..Len(todo) |-> IF i = 0 THEN link ELSE RunStep(after[i - 1], todo[i])]
    BY <1>2
  <1> HIDE DEF after
  <1>4. Follows(after, link, todo, Len(todo))
    BY <1>3, Zenon DEF Follows
  <1> QED
    BY <1>1, <1>4, Zenon

LEMMA StepsUnfold ==
  ASSUME NEW link, NEW todo, Len(todo) \in Nat
  PROVE  Steps(link, todo, 0) = link
  <1>1. PICK f : Follows(f, link, todo, Len(todo)) /\ \A k : Steps(link, todo, k) = f[k]
    BY StepsFollow
  <1>2. f[0] = link
    BY <1>1 DEF Follows
  <1> QED
    BY <1>1, <1>2, Zenon

LEMMA StepsNext ==
  ASSUME NEW link, NEW todo, Len(todo) \in Nat, NEW k \in 1..Len(todo)
  PROVE  Steps(link, todo, k) = RunStep(Steps(link, todo, k - 1), todo[k])
  <1>1. PICK f : Follows(f, link, todo, Len(todo)) /\ \A i : Steps(link, todo, i) = f[i]
    BY StepsFollow
  <1>2. f[k] = RunStep(f[k - 1], todo[k])
    BY <1>1 DEF Follows
  <1>3. Steps(link, todo, k) = f[k] /\ Steps(link, todo, k - 1) = f[k - 1]
    BY <1>1, Zenon
  <1> QED
    BY <1>2, <1>3, Zenon

AnyPlan == PlanCard \cup {UnknownCard}
DataLink == [addrs : SUBSET Address, route : BOOLEAN, rules : SUBSET Address]
DataSess == {NoSession} \cup [addr : Address, card : AnyPlan, on : QmiModule]
DataCmd == [op : {"none", "apn", "start", "push"}, on : SUBSET DataModule,
            named : SUBSET DataModule, listed : BOOLEAN, card : AnyPlan]

\* A step that gives the interface something gives it an address.
Sound(s) == s.do \in {"addr", "rule_add"} => s.a \in Address

LEMMA RunStepType ==
  ASSUME NEW l \in DataLink, NEW s, Sound(s) PROVE RunStep(l, s) \in DataLink
  <1>1. [l EXCEPT !.route = FALSE] \in DataLink /\ [l EXCEPT !.route = TRUE] \in DataLink
    BY DEF DataLink
  <1>2. [l EXCEPT !.addrs = {}] \in DataLink
    BY DEF DataLink
  <1>3. [l EXCEPT !.rules = l.rules \ {s.a}] \in DataLink
    BY DEF DataLink
  <1>4. s.a \in Address => /\ [l EXCEPT !.addrs = l.addrs \cup {s.a}] \in DataLink
                           /\ [l EXCEPT !.rules = l.rules \cup {s.a}] \in DataLink
    BY DEF DataLink
  <1> QED
    BY <1>1, <1>2, <1>3, <1>4 DEF RunStep, Sound

LEMMA StepsType ==
  ASSUME NEW l \in DataLink, NEW todo, Len(todo) \in Nat,
         \A i \in 1..Len(todo) : Sound(todo[i]), NEW k \in 0..Len(todo)
  PROVE  Steps(l, todo, k) \in DataLink
  <1> DEFINE Bad == {i \in 0..Len(todo) : Steps(l, todo, i) \notin DataLink}
  <1>1. SUFFICES ASSUME Bad # {} PROVE FALSE
    OBVIOUS
  <1>2. Bad \in SUBSET Nat
    OBVIOUS
  <1>3. PICK i \in Bad : \A y \in Bad : i <= y
    BY <1>1, <1>2, LeastOf
  <1>4. i # 0
    BY <1>3, StepsUnfold
  <1>5. i - 1 \in 0..Len(todo) /\ i - 1 \notin Bad /\ i \in 1..Len(todo)
    BY <1>3, <1>4
  <1>6. Steps(l, todo, i - 1) \in DataLink
    BY <1>5
  <1>7. Steps(l, todo, i) = RunStep(Steps(l, todo, i - 1), todo[i])
    BY <1>5, StepsNext
  <1> QED
    BY <1>3, <1>5, <1>6, <1>7, RunStepType

LEMMA StepsInTurn ==
  ASSUME NEW l \in DataLink, NEW todo, NEW n \in Nat, Len(todo) = n,
         \A i \in 1..n : Sound(todo[i])
  PROVE  /\ \A k \in 0..n : Steps(l, todo, k) \in DataLink
         /\ \A k \in 1..n : Steps(l, todo, k) = RunStep(Steps(l, todo, k - 1), todo[k])
  <1>1. Len(todo) \in Nat /\ \A i \in 1..Len(todo) : Sound(todo[i])
    OBVIOUS
  <1>2. \A k \in 0..Len(todo) : Steps(l, todo, k) \in DataLink
    BY <1>1, StepsType, Zenon
  <1>3. ASSUME NEW k \in 1..Len(todo)
        PROVE  Steps(l, todo, k) = RunStep(Steps(l, todo, k - 1), todo[k])
    BY <1>1, StepsNext
  <1> QED
    BY <1>2, <1>3

\* A tear-down that runs to its end leaves no address, wherever it began.
LEMMA TornDown ==
  ASSUME NEW l \in DataLink, NEW a
  PROVE  /\ Steps(l, TearDown(a), 4) \in DataLink
         /\ Steps(l, TearDown(a), 2) \in DataLink
         /\ Steps(l, TearDown(a), 4).addrs = {}
  <1> DEFINE t == TearDown(a)
  <1>1. Len(t) = 4 /\ t[3] = Do("flush", a) /\ t[4] = Do("down", a)
    BY DEF TearDown
  <1>2. \A i \in 1..4 : Sound(t[i])
    BY DEF TearDown, Do, Sound
  <1> HIDE DEF t
  <1>3. /\ \A k \in 0..4 : Steps(l, t, k) \in DataLink
        /\ \A k \in 1..4 : Steps(l, t, k) = RunStep(Steps(l, t, k - 1), t[k])
    BY <1>1, <1>2, StepsInTurn
  <1>4. /\ Steps(l, t, 3) = RunStep(Steps(l, t, 2), t[3])
        /\ Steps(l, t, 4) = RunStep(Steps(l, t, 3), t[4])
        /\ Steps(l, t, 2) \in DataLink /\ Steps(l, t, 3) \in DataLink
        /\ Steps(l, t, 4) \in DataLink
    BY <1>3
  <1>5. RunStep(Steps(l, t, 2), t[3]).addrs = {}
    BY <1>1, <1>4 DEF RunStep, Do, DataLink
  <1>6. RunStep(Steps(l, t, 3), t[4]).addrs = Steps(l, t, 3).addrs
    BY <1>1, <1>4 DEF RunStep, Do, DataLink
  <1> QED
    BY <1>4, <1>5, <1>6 DEF t

\* A bring-up that runs to its end has left the address it was given.
LEMMA BroughtUp ==
  ASSUME NEW l \in DataLink, NEW a \in Address, NEW flush \in {"flush", "fails"}
  PROVE  /\ \A k \in 0..7 : Steps(l, BringUp(a, flush), k) \in DataLink
         /\ a \in Steps(l, BringUp(a, flush), 7).addrs
  <1> DEFINE t == BringUp(a, flush)
  <1>1. /\ Len(t) = 7 /\ t[4] = Do("addr", a) /\ t[5] = Do("route", a)
        /\ t[6] = Do("rule_del", a) /\ t[7] = Do("rule_add", a)
    BY DEF BringUp
  <1>2. \A i \in 1..7 : Sound(t[i])
    BY DEF BringUp, Do, Sound
  <1> HIDE DEF t
  <1>3. \A k \in 0..7 : Steps(l, t, k) \in DataLink
    BY <1>1, <1>2, StepsInTurn
  <1>4. \A k \in 1..7 : Steps(l, t, k) = RunStep(Steps(l, t, k - 1), t[k])
    BY <1>1, <1>2, StepsInTurn
  <1>5. a \in Steps(l, t, 4).addrs
    <2>1. Steps(l, t, 4) = RunStep(Steps(l, t, 3), t[4]) /\ Steps(l, t, 3) \in DataLink
      BY <1>3, <1>4
    <2> QED
      BY <1>1, <2>1 DEF RunStep, Do, DataLink
  <1>6. a \in Steps(l, t, 5).addrs
    <2>1. Steps(l, t, 5) = RunStep(Steps(l, t, 4), t[5]) /\ Steps(l, t, 4) \in DataLink
      BY <1>3, <1>4
    <2> QED
      BY <1>1, <1>5, <2>1 DEF RunStep, Do, DataLink
  <1>7. a \in Steps(l, t, 6).addrs
    <2>1. Steps(l, t, 6) = RunStep(Steps(l, t, 5), t[6]) /\ Steps(l, t, 5) \in DataLink
      BY <1>3, <1>4
    <2> QED
      BY <1>1, <1>6, <2>1 DEF RunStep, Do, DataLink
  <1>8. a \in Steps(l, t, 7).addrs
    <2>1. Steps(l, t, 7) = RunStep(Steps(l, t, 6), t[7]) /\ Steps(l, t, 6) \in DataLink
      BY <1>3, <1>4
    <2> QED
      BY <1>1, <1>7, <2>1 DEF RunStep, Do, DataLink
  <1> QED
    BY <1>3, <1>8 DEF t

LEMMA TornOutcomes ==
  ASSUME NEW l \in DataLink, NEW a, NEW o \in TearDownOutcomes(l, a)
  PROVE  o.link \in DataLink /\ (o.ok => o.link.addrs = {})
  BY TornDown DEF TearDownOutcomes

DataTypeOK ==
    /\ known \in [DataModule -> AnyPlan]
    /\ policy \in [PlanCard -> {"on", "off", "none"}]
    /\ net \in [DataModule -> DataLink]
    /\ sess \in [DataModule -> DataSess]
    /\ cmd \in DataCmd
    /\ troubled \subseteq DataModule

\* What the gate found still holds while the command it let through runs: the
\* policies are replaced by a command too, and commands run one at a time.
GateHolds ==
    cmd.op \in {"apn", "start"} /\ cmd.card # UnknownCard => policy[cmd.card] # "off"

\* The modules a push has been through have no session, if it could list them.
PushHolds == cmd.op = "push" /\ cmd.listed => \A m \in cmd.named \ cmd.on : sess[m] = NoSession

DataInv == DataTypeOK /\ NoGhostLink /\ GateHolds /\ PushHolds

LEMMA DataConstants ==
  /\ NoSession \in DataSess
  /\ Bare \in DataLink
  /\ NoCmd \in DataCmd /\ NoCmd.op = "none"
  /\ QmiModule \subseteq DataModule
  BY DEF NoSession, Bare, NoCmd, AnyPlan, DataLink, DataSess, DataCmd, DataModule

LEMMA DataInitially == DataInit => DataInv
  <1> SUFFICES ASSUME DataInit PROVE DataInv
    OBVIOUS
  <1>1. DataTypeOK
    BY DataConstants DEF DataInit, DataTypeOK, AnyPlan
  <1>2. NoGhostLink
    BY DataConstants DEF DataInit, NoGhostLink, Bare
  <1>3. GateHolds /\ PushHolds
    BY DataConstants DEF DataInit, GateHolds, PushHolds
  <1> QED
    BY <1>1, <1>2, <1>3 DEF DataInv

\* A step that leaves the interfaces and the sessions alone.
LEMMA LinksStill ==
  ASSUME DataInv, UNCHANGED <<net, sess, troubled>> PROVE NoGhostLink'
  BY DEF DataInv, NoGhostLink

\* The gate lets through what the policy of the module's card allows, and what
\* it cannot read it does not let through.
LEMMA GateReads ==
  ASSUME DataInv, NEW m \in DataModule, NEW read \in CardPolicyRead(m), CellularAllowsData(read)
  PROVE  known[m] # UnknownCard => policy[known[m]] # "off"
  BY DEF CardPolicyRead, CellularAllowsData

LEMMA AllowsData ==
  ASSUME DataInv, NEW m \in DataModule, AllowData(m) PROVE DataInv'
  <1>1. UNCHANGED <<known, policy, net, sess, bearer, context, troubled>>
    BY DEF AllowData
  <1>2. CASE cmd' = NoCmd
    <2>1. DataTypeOK'
      BY <1>1, <1>2, DataConstants DEF DataInv, DataTypeOK
    <2>2. GateHolds' /\ PushHolds'
      BY <1>2, DataConstants DEF GateHolds, PushHolds
    <2> QED
      BY <1>1, <2>1, <2>2, LinksStill DEF DataInv
  <1>3. CASE /\ \E read \in CardPolicyRead(m) : CellularAllowsData(read)
             /\ cmd' = [NoCmd EXCEPT !.op = "apn", !.on = {m}, !.card = known[m]]
    <2>1. known[m] \in AnyPlan /\ {m} \in SUBSET DataModule
      BY DEF DataInv, DataTypeOK
    <2>2. cmd' \in DataCmd /\ cmd'.op = "apn" /\ cmd'.card = known[m]
      <3>1. PICK card : card = known[m]
        OBVIOUS
      <3>2. PICK on : on = {m}
        OBVIOUS
      <3>3. cmd' = [NoCmd EXCEPT !.op = "apn", !.on = on, !.card = card]
        BY <1>3, <3>1, <3>2
      <3>4. card \in AnyPlan /\ on \in SUBSET DataModule
        BY <2>1, <3>1, <3>2
      <3>5. cmd' \in DataCmd /\ cmd'.op = "apn" /\ cmd'.card = card
        BY <3>3, <3>4 DEF NoCmd, DataCmd, AnyPlan
      <3> QED
        BY <3>1, <3>5
    <2>3. known[m] # UnknownCard => policy[known[m]] # "off"
      BY <1>3, GateReads
    <2>4. DataTypeOK'
      BY <1>1, <2>2 DEF DataInv, DataTypeOK
    <2>5. GateHolds' /\ PushHolds'
      BY <1>1, <2>2, <2>3 DEF GateHolds, PushHolds
    <2> QED
      BY <1>1, <2>4, <2>5, LinksStill DEF DataInv
  <1> QED
    BY <1>2, <1>3 DEF AllowData, Begin

LEMMA AsksApn ==
  ASSUME DataInv, NEW m \in DataModule, ApnForData(m) PROVE DataInv'
  <1>1. UNCHANGED <<known, policy, net, sess, bearer, context, troubled>> /\ cmd.op = "apn"
    BY DEF ApnForData
  <1>2. cmd' = NoCmd \/ cmd' = [cmd EXCEPT !.op = "start"]
    BY DEF ApnForData
  <1>3. cmd' \in DataCmd /\ cmd'.op # "push" /\ (cmd'.op = "none" \/ cmd'.card = cmd.card)
    BY <1>2, DataConstants DEF DataInv, DataTypeOK, DataCmd
  <1>4. DataTypeOK'
    BY <1>1, <1>3 DEF DataInv, DataTypeOK
  <1>5. GateHolds' /\ PushHolds'
    BY <1>1, <1>3 DEF DataInv, GateHolds, PushHolds
  <1> QED
    BY <1>1, <1>4, <1>5, LinksStill DEF DataInv

\* A step that changes one interface and one module's session: the interface
\* the session had is the one that changes, or is troubled.
LEMMA LinkChanges ==
  ASSUME DataInv, NEW m \in DataModule, NEW on \in DataModule, NEW l \in DataLink, NEW s \in DataSess,
         net' = [net EXCEPT ![on] = l], sess' = [sess EXCEPT ![m] = s],
         troubled \ {on} \subseteq troubled',
         s = sess[m] \/ sess[m].on = on \/ sess[m].on \notin QmiModule \ troubled',
         \/ on \in troubled' \/ l.addrs = {} \/ (s.on = on /\ s.addr \in l.addrs)
         \/ s = sess[m] /\ l.addrs = net[on].addrs /\ on \notin troubled
  PROVE  /\ NoGhostLink'
         /\ net' \in [DataModule -> DataLink] /\ sess' \in [DataModule -> DataSess]
         /\ sess'[m] = s /\ \A x \in DataModule \ {m} : sess'[x] = sess[x]
  <1>1. net' \in [DataModule -> DataLink] /\ net'[on] = l
        /\ \A x \in DataModule \ {on} : net'[x] = net[x]
    BY DEF DataInv, DataTypeOK
  <1>2. sess' \in [DataModule -> DataSess] /\ sess'[m] = s
        /\ \A x \in DataModule \ {m} : sess'[x] = sess[x]
    BY DEF DataInv, DataTypeOK
  <1>3. ASSUME NEW y \in QmiModule \ troubled', net'[y].addrs # {}
        PROVE  \E x \in DataModule : sess'[x].on = y /\ sess'[x].addr \in net'[y].addrs
    <2>1. y \in DataModule
      BY DataConstants
    <2>2. ASSUME y \notin troubled, net'[y].addrs = net[y].addrs,
                 s = sess[m] \/ sess[m].on # y
          PROVE  \E x \in DataModule : sess'[x].on = y /\ sess'[x].addr \in net'[y].addrs
      <3>1. PICK x \in DataModule : sess[x].on = y /\ sess[x].addr \in net[y].addrs
        BY <1>3, <2>2 DEF DataInv, NoGhostLink
      <3>2. sess'[x] = sess[x]
        BY <1>2, <2>2, <3>1
      <3> QED
        BY <2>2, <3>1, <3>2
    <2>3. CASE y = on
      <3>1. CASE s.on = on /\ s.addr \in l.addrs
        BY <1>1, <1>2, <2>3, <3>1
      <3>2. CASE s = sess[m] /\ l.addrs = net[on].addrs /\ on \notin troubled
        BY <1>1, <2>2, <2>3, <3>2
      <3> QED
        BY <1>1, <1>3, <2>3, <3>1, <3>2
    <2>4. CASE y # on
      BY <1>1, <1>3, <2>1, <2>2, <2>4
    <2> QED
      BY <2>3, <2>4
  <1> QED
    BY <1>1, <1>2, <1>3 DEF NoGhostLink

\* What a start leaves: the link as it was but for the route; or what the
\* undoing left, reported when it failed; or the link with its session.
StartLeaves(m, on, l, s) ==
    /\ net' = [net EXCEPT ![on] = l] /\ sess' = [sess EXCEPT ![m] = s]
    /\ troubled \ {on} \subseteq troubled'
    /\ s = sess[m] \/ sess[m].on = on \/ sess[m].on \notin QmiModule \ troubled'
    /\ \/ on \in troubled' \/ l.addrs = {} \/ (s.on = on /\ s.addr \in l.addrs)
       \/ s = sess[m] /\ l.addrs = net[on].addrs /\ on \notin troubled
    /\ s = sess[m] \/ s.card = cmd.card
    /\ troubled' \subseteq DataModule

LEMMA StartOutcome ==
  ASSUME DataInv, NEW m \in DataModule, StartData(m)
  PROVE  \E on \in DataModule, l \in DataLink, s \in DataSess : StartLeaves(m, on, l, s)
  <1>1. sess[m] \in DataSess /\ sess = [sess EXCEPT ![m] = sess[m]]
    BY DEF DataInv, DataTypeOK
  <1>2. PICK on \in QmiModule :
         \/ /\ net' = [net EXCEPT ![on].route = FALSE]
            /\ UNCHANGED <<sess, troubled>>
         \/ \E a \in Address, flush \in {"flush", "fails"}, k \in {0, 2, 3, 4, 6} :
              \E undone \in TearDownOutcomes(Steps(net[on], BringUp(a, flush), k), a) :
                 /\ net' = [net EXCEPT ![on] = undone.link]
                 /\ troubled' = IF undone.ok THEN troubled ELSE troubled \cup {on}
                 /\ UNCHANGED sess
         \/ \E a \in Address, flush \in {"flush", "fails"} :
                 /\ net' = [net EXCEPT ![on] = Steps(@, BringUp(a, flush), 7)]
                 /\ sess' = [sess EXCEPT ![m] = [addr |-> a, card |-> cmd.card, on |-> on]]
                 /\ troubled' = (troubled \cup {sess[m].on}) \ {on, NoModule}
    BY DEF StartData
  <1>3. on \in DataModule /\ net[on] \in DataLink
    BY DataConstants DEF DataInv, DataTypeOK
  <1>4. CASE net' = [net EXCEPT ![on].route = FALSE] /\ UNCHANGED <<sess, troubled>>
    <2> DEFINE l == [net[on] EXCEPT !.route = FALSE]
    <2>1. l \in DataLink /\ l.addrs = net[on].addrs
      BY <1>3 DEF DataLink
    <2>2. net' = [net EXCEPT ![on] = l]
      BY <1>4
    <2> HIDE DEF l
    <2>3. StartLeaves(m, on, l, sess[m])
      BY <1>1, <1>4, <2>1, <2>2 DEF StartLeaves, DataInv, DataTypeOK
    <2> QED
      BY <1>1, <1>3, <2>1, <2>3
  <1>5. ASSUME NEW a \in Address, NEW flush \in {"flush", "fails"}, NEW k \in {0, 2, 3, 4, 6},
               NEW undone \in TearDownOutcomes(Steps(net[on], BringUp(a, flush), k), a),
               net' = [net EXCEPT ![on] = undone.link],
               troubled' = IF undone.ok THEN troubled ELSE troubled \cup {on},
               UNCHANGED sess
        PROVE  \E l \in DataLink, s \in DataSess : StartLeaves(m, on, l, s)
    <2>1. k \in 0..7
      BY <1>5
    <2>2. Steps(net[on], BringUp(a, flush), k) \in DataLink
      BY <1>3, <2>1, BroughtUp
    <2>3. undone.link \in DataLink /\ (undone.ok => undone.link.addrs = {})
      BY <2>2, TornOutcomes
    <2>4. StartLeaves(m, on, undone.link, sess[m])
      BY <1>1, <1>3, <1>5, <2>3 DEF StartLeaves, DataInv, DataTypeOK
    <2> QED
      BY <1>1, <2>3, <2>4
  <1>6. ASSUME NEW a \in Address, NEW flush \in {"flush", "fails"},
               net' = [net EXCEPT ![on] = Steps(@, BringUp(a, flush), 7)],
               sess' = [sess EXCEPT ![m] = [addr |-> a, card |-> cmd.card, on |-> on]],
               troubled' = (troubled \cup {sess[m].on}) \ {on, NoModule}
        PROVE  \E l \in DataLink, s \in DataSess : StartLeaves(m, on, l, s)
    <2> DEFINE l == Steps(net[on], BringUp(a, flush), 7)
               s == [addr |-> a, card |-> cmd.card, on |-> on]
    <2>1. l \in DataLink /\ a \in l.addrs
      <3>1. /\ \A k \in 0..7 : Steps(net[on], BringUp(a, flush), k) \in DataLink
            /\ a \in Steps(net[on], BringUp(a, flush), 7).addrs
        BY <1>3, BroughtUp, Zenon
      <3>2. 7 \in 0..7
        OBVIOUS
      <3> QED
        BY <3>1, <3>2
    <2>2. s \in DataSess /\ s.addr = a /\ s.card = cmd.card /\ s.on = on
      BY DEF DataInv, DataTypeOK, DataCmd, DataSess
    <2>3. net' = [net EXCEPT ![on] = l] /\ sess' = [sess EXCEPT ![m] = s]
      BY <1>6
    <2>4. NoModule \notin QmiModule
      BY DataAssumption DEF DataModule
    <2>5. /\ troubled \ {on} \subseteq troubled' \cup {NoModule}
          /\ sess[m].on = on \/ sess[m].on = NoModule \/ sess[m].on \in troubled'
          /\ troubled' \subseteq DataModule
      BY <1>1, <1>6, DataConstants DEF DataInv, DataTypeOK, DataSess, NoSession
    <2>6. NoModule \notin troubled
      BY DataAssumption DEF DataInv, DataTypeOK
    <2> HIDE DEF l, s
    <2>7. StartLeaves(m, on, l, s)
      BY <2>1, <2>2, <2>3, <2>4, <2>5, <2>6 DEF StartLeaves
    <2> QED
      BY <2>1, <2>2, <2>7
  <1> QED
    BY <1>2, <1>3, <1>4, <1>5, <1>6

LEMMA StartsData ==
  ASSUME DataInv, NEW m \in DataModule, StartData(m) PROVE DataInv'
  <1>1. cmd' = NoCmd /\ UNCHANGED <<known, policy>>
    BY DEF StartData
  <1>2. PICK on \in DataModule, l \in DataLink, s \in DataSess : StartLeaves(m, on, l, s)
    BY StartOutcome
  <1>3. /\ NoGhostLink' /\ net' \in [DataModule -> DataLink]
        /\ sess' \in [DataModule -> DataSess]
    BY <1>2, LinkChanges DEF StartLeaves
  <1>4. troubled' \subseteq DataModule
    BY <1>2 DEF StartLeaves
  <1>6. DataTypeOK'
    BY <1>1, <1>3, <1>4, DataConstants DEF DataInv, DataTypeOK
  <1>5. GateHolds' /\ PushHolds'
    BY <1>1, DataConstants DEF GateHolds, PushHolds
  <1> QED
    BY <1>3, <1>5, <1>6 DEF DataInv

LEMMA StopOutcome ==
  ASSUME DataInv, NEW m \in DataModule, StopData(m)
  PROVE  /\ NoGhostLink' /\ troubled' \subseteq DataModule /\ net' \in [DataModule -> DataLink]
         /\ sess' \in [DataModule -> DataSess]
         /\ sess'[m] = NoSession /\ \A x \in DataModule \ {m} : sess'[x] = sess[x]
  <1>1. sess[m] \in DataSess
    BY DEF DataInv, DataTypeOK
  <1>2. sess' = [sess EXCEPT ![m] = NoSession]
    BY DEF StopData
  <1>3. CASE sess[m] = NoSession /\ UNCHANGED <<net, troubled>>
    <2>1. sess' = sess
      BY <1>2, <1>3 DEF DataInv, DataTypeOK
    <2> QED
      BY <1>3, <2>1, LinksStill DEF DataInv, DataTypeOK
  <1>4. CASE ~(sess[m] = NoSession /\ UNCHANGED <<net, troubled>>)
    <2>1. PICK on : on = sess[m].on
      OBVIOUS
    <2>2. sess[m] # NoSession /\ on \in QmiModule
      BY <1>1, <1>4, <2>1 DEF StopData, DataSess
    <2>3. on \in DataModule /\ net[on] \in DataLink
      BY <2>2, DataConstants DEF DataInv, DataTypeOK
    <2>4. PICK torn \in TearDownOutcomes(net[on], sess[m].addr) :
             /\ net' = [net EXCEPT ![on] = torn.link]
             /\ troubled' = IF torn.ok THEN troubled ELSE troubled \cup {on}
      BY <1>4, <2>1 DEF StopData
    <2>5. torn.link \in DataLink /\ (torn.ok => torn.link.addrs = {})
      BY <2>3, TornOutcomes
    <2>6. /\ troubled \ {on} \subseteq troubled' /\ troubled' \subseteq DataModule
          /\ on \in troubled' \/ torn.link.addrs = {}
      BY <2>3, <2>4, <2>5 DEF DataInv, DataTypeOK
    <2>7. PICK l : l = torn.link
      OBVIOUS
    <2>8. PICK s : s = NoSession
      OBVIOUS
    <2>9. /\ l \in DataLink /\ s \in DataSess
          /\ net' = [net EXCEPT ![on] = l] /\ sess' = [sess EXCEPT ![m] = s]
          /\ sess[m].on = on /\ (on \in troubled' \/ l.addrs = {})
      BY <1>2, <2>1, <2>4, <2>5, <2>6, <2>7, <2>8, DataConstants
    <2>10. /\ NoGhostLink' /\ net' \in [DataModule -> DataLink] /\ sess' \in [DataModule -> DataSess]
           /\ sess'[m] = s /\ \A x \in DataModule \ {m} : sess'[x] = sess[x]
      BY <2>3, <2>6, <2>9, LinkChanges
    <2> QED
      BY <2>6, <2>8, <2>10
  <1> QED
    BY <1>3, <1>4

LEMMA SwitchesOff ==
  ASSUME DataInv, NEW m \in DataModule, SetDataOff(m) PROVE DataInv'
  <1>1. cmd' = NoCmd /\ UNCHANGED <<known, policy>>
    BY DEF SetDataOff, Begin
  <1>2. /\ NoGhostLink' /\ troubled' \subseteq DataModule /\ net' \in [DataModule -> DataLink]
        /\ sess' \in [DataModule -> DataSess]
    BY StopOutcome DEF SetDataOff
  <1>3. DataTypeOK'
    BY <1>1, <1>2, DataConstants DEF DataInv, DataTypeOK
  <1>4. GateHolds' /\ PushHolds'
    BY <1>1, DataConstants DEF GateHolds, PushHolds
  <1> QED
    BY <1>2, <1>3, <1>4 DEF DataInv

LEMMA DropsOne ==
  ASSUME DataInv, NEW m \in DataModule, DropOne(m) PROVE DataInv'
  <1>1. cmd.op = "push" /\ cmd' = [cmd EXCEPT !.on = @ \ {m}] /\ UNCHANGED <<known, policy>>
    BY DEF DropOne
  <1>2. /\ NoGhostLink' /\ troubled' \subseteq DataModule /\ net' \in [DataModule -> DataLink]
        /\ sess' \in [DataModule -> DataSess]
        /\ sess'[m] = NoSession /\ \A x \in DataModule \ {m} : sess'[x] = sess[x]
    BY StopOutcome DEF DropOne
  <1>3. /\ cmd' \in DataCmd /\ cmd'.op = "push" /\ cmd'.named = cmd.named /\ cmd'.listed = cmd.listed
        /\ cmd'.on = cmd.on \ {m} /\ cmd.named \subseteq DataModule
    BY <1>1 DEF DataInv, DataTypeOK, DataCmd
  <1>4. DataTypeOK'
    BY <1>1, <1>2, <1>3 DEF DataInv, DataTypeOK
  <1>5. GateHolds'
    BY <1>3 DEF GateHolds
  <1>6. PushHolds'
    <2> SUFFICES ASSUME cmd'.listed, NEW x \in cmd'.named \ cmd'.on PROVE sess'[x] = NoSession
      BY DEF PushHolds
    <2>1. x \in DataModule /\ (x = m \/ x \in cmd.named \ cmd.on)
      BY <1>3
    <2>2. x \in cmd.named \ cmd.on => sess[x] = NoSession
      BY <1>1, <1>3 DEF DataInv, PushHolds
    <2> QED
      BY <1>2, <2>1, <2>2
  <1> QED
    BY <1>2, <1>4, <1>5, <1>6 DEF DataInv

LEMMA StoresPolicies ==
  ASSUME DataInv, StorePolicies PROVE DataInv'
  <1>1. UNCHANGED <<known, net, sess, troubled>>
    BY DEF StorePolicies
  <1>2. CASE cmd' = NoCmd /\ UNCHANGED policy
    <2>1. DataTypeOK'
      BY <1>1, <1>2, DataConstants DEF DataInv, DataTypeOK
    <2>2. GateHolds' /\ PushHolds'
      BY <1>2, DataConstants DEF GateHolds, PushHolds
    <2> QED
      BY <1>1, <2>1, <2>2, LinksStill DEF DataInv
  <1>3. ASSUME NEW set \in [PlanCard -> {"on", "off", "none"}], NEW listed \in BOOLEAN,
               NEW named, named = ModemsToDrop({c \in PlanCard : set[c] = "off"}),
               NEW on, on = IF listed THEN named ELSE {},
               policy' = set,
               cmd' = [NoCmd EXCEPT !.op = "push", !.named = named, !.listed = listed, !.on = on]
        PROVE  DataInv'
    <2>1. named \in SUBSET DataModule /\ on \in SUBSET DataModule
      BY <1>3 DEF ModemsToDrop
    <2>2. /\ cmd' \in DataCmd /\ cmd'.op = "push" /\ cmd'.on = on /\ cmd'.named = named
          /\ cmd'.listed = listed
      <3>1. PICK c : c = cmd'
        OBVIOUS
      <3>2. c = [NoCmd EXCEPT !.op = "push", !.named = named, !.listed = listed, !.on = on]
        BY <1>3, <3>1
      <3>3. c \in DataCmd /\ c.op = "push" /\ c.on = on /\ c.named = named /\ c.listed = listed
        BY <1>3, <2>1, <3>2 DEF NoCmd, DataCmd, AnyPlan
      <3> QED
        BY <3>1, <3>3
    <2>3. DataTypeOK'
      BY <1>1, <1>3, <2>2 DEF DataInv, DataTypeOK
    <2>4. GateHolds' /\ PushHolds'
      BY <1>3, <2>2 DEF GateHolds, PushHolds
    <2> QED
      BY <1>1, <2>3, <2>4, LinksStill DEF DataInv
  <1>4. CASE ~(cmd' = NoCmd /\ UNCHANGED policy)
    <2>1. PICK set \in [PlanCard -> {"on", "off", "none"}], listed \in BOOLEAN :
             /\ policy' = set
             /\ LET named == ModemsToDrop({c \in PlanCard : set[c] = "off"})
                IN  cmd' = [NoCmd EXCEPT !.op = "push", !.named = named, !.listed = listed,
                                         !.on = IF listed THEN named ELSE {}]
      BY <1>4 DEF StorePolicies, Begin
    <2>2. PICK named : named = ModemsToDrop({c \in PlanCard : set[c] = "off"})
      OBVIOUS
    <2>3. PICK on : on = IF listed THEN named ELSE {}
      OBVIOUS
    <2> QED
      BY <1>3, <2>1, <2>2, <2>3
  <1> QED
    BY <1>2, <1>4

LEMMA DataStep == DataInv /\ [DataNext]_dataVars => DataInv'
  <1> SUFFICES ASSUME DataInv, [DataNext]_dataVars PROVE DataInv'
    OBVIOUS
  <1>1. ASSUME NEW m \in DataModule,
               AllowData(m) \/ ApnForData(m) \/ StartData(m) \/ SetDataOff(m) \/ DropOne(m)
        PROVE  DataInv'
    BY <1>1, AllowsData, AsksApn, StartsData, SwitchesOff, DropsOne
  <1>2. ASSUME cmd' = NoCmd, UNCHANGED <<known, policy, net, sess, troubled>> PROVE DataInv'
    <2>1. DataTypeOK'
      BY <1>2, DataConstants DEF DataInv, DataTypeOK
    <2>2. GateHolds' /\ PushHolds'
      BY <1>2, DataConstants DEF GateHolds, PushHolds
    <2> QED
      BY <1>2, <2>1, <2>2, LinksStill DEF DataInv
  <1>3. ASSUME NEW m \in DataModule, AttachBearer(m) \/ ConfigureApn(m) PROVE DataInv'
    BY <1>2, <1>3 DEF AttachBearer, ConfigureApn, Begin
  <1>4. CASE PushDone
    BY <1>2, <1>4 DEF PushDone
  <1>5. ASSUME NEW m \in DataModule, LearnCard(m) PROVE DataInv'
    <2>1. PICK c \in AnyPlan : known' = [known EXCEPT ![m] = c]
      BY <1>5 DEF LearnCard, AnyPlan
    <2>2. DataTypeOK'
      BY <1>5, <2>1 DEF LearnCard, DataInv, DataTypeOK
    <2> QED
      BY <1>5, <2>2, LinksStill DEF LearnCard, DataInv, GateHolds, PushHolds
  <1>6. CASE StorePolicies
    BY <1>6, StoresPolicies
  <1>7. CASE DataStop
    <2>1. cmd' = NoCmd /\ troubled' = DataModule /\ UNCHANGED <<known, policy, net>>
      BY <1>7 DEF DataStop
    <2>2. DataTypeOK'
      BY <1>7, <2>1, DataConstants DEF DataStop, DataInv, DataTypeOK
    <2>3. NoGhostLink'
      BY <2>1, DataConstants DEF NoGhostLink
    <2>4. GateHolds' /\ PushHolds'
      BY <2>1, DataConstants DEF GateHolds, PushHolds
    <2> QED
      BY <2>2, <2>3, <2>4 DEF DataInv
  <1>8. CASE UNCHANGED dataVars
    BY <1>8, LinksStill DEF dataVars, DataInv, DataTypeOK, GateHolds, PushHolds
  <1> QED
    BY <1>1, <1>3, <1>4, <1>5, <1>6, <1>7, <1>8 DEF DataNext

\* A session begins in one action only, under the policy the gate found.
LEMMA BeginsAllowed ==
  ASSUME DataInv, DataNext, NEW x \in DataModule, sess'[x] # NoSession, sess'[x] # sess[x],
         sess'[x].card # UnknownCard
  PROVE  policy[sess'[x].card] # "off"
  <1>1. ASSUME NEW m \in DataModule, StartData(m) PROVE policy[sess'[x].card] # "off"
    <2>1. PICK s \in DataSess :
             /\ sess' = [sess EXCEPT ![m] = s]
             /\ s = sess[m] \/ s.card = cmd.card
      BY <1>1, StartOutcome DEF StartLeaves
    <2>2. x = m /\ sess'[x] = s /\ s # sess[m]
      BY <2>1 DEF DataInv, DataTypeOK
    <2>3. cmd.op = "start"
      BY <1>1 DEF StartData
    <2> QED
      BY <2>1, <2>2, <2>3 DEF DataInv, GateHolds
  <1>2. ASSUME NEW m \in DataModule, SetDataOff(m) \/ DropOne(m) PROVE FALSE
    <2>1. sess'[m] = NoSession /\ \A y \in DataModule \ {m} : sess'[y] = sess[y]
      BY <1>2, StopOutcome DEF SetDataOff, DropOne
    <2> QED
      BY <2>1
  <1>3. ASSUME NEW m \in DataModule, AllowData(m) \/ ApnForData(m) \/ AttachBearer(m)
                  \/ ConfigureApn(m) \/ LearnCard(m)
        PROVE  FALSE
    BY <1>3 DEF AllowData, ApnForData, AttachBearer, ConfigureApn, LearnCard
  <1>4. CASE StorePolicies \/ PushDone
    BY <1>4 DEF StorePolicies, PushDone
  <1>5. CASE DataStop
    BY <1>5 DEF DataStop
  <1> QED
    BY <1>1, <1>2, <1>3, <1>4, <1>5 DEF DataNext

\* Whatever step fails, in the module, in the kernel or in the store, whatever
\* card the poll learns of and whatever node passes to another module: an
\* interface has an address only while the agent holds a session on it, unless
\* the agent said that it could not undo it, was stopped, or replaced the
\* session by one on another interface; no session begins for a module whose
\* card the gate found off; and a push that could list the modules ends without
\* a session for any it named.  For any modules, cards and addresses
\* (start_data, stop_data, cellular_allows_data, modems_to_drop).
THEOREM DataAlwaysAsTold == DataSpec => DataAsTold
  <1> DEFINE Held ==
       /\ \A m \in DataModule : sess'[m] # NoSession /\ sess'[m] # sess[m] /\ sess'[m].card # UnknownCard
             => policy[sess'[m].card] # "off"
       /\ cmd.op = "push" /\ cmd'.op # "push" /\ cmd.on = {} /\ cmd.listed
             => \A m \in cmd.named : sess[m] = NoSession
  <1>1. DataInv /\ [DataNext]_dataVars => [Held]_dataVars
    <2> SUFFICES ASSUME DataInv, DataNext PROVE Held
      OBVIOUS
    <2>1. \A m \in DataModule :
             sess'[m] # NoSession /\ sess'[m] # sess[m] /\ sess'[m].card # UnknownCard
               => policy[sess'[m].card] # "off"
      BY BeginsAllowed
    <2>2. cmd.op = "push" /\ cmd.on = {} /\ cmd.listed => \A m \in cmd.named : sess[m] = NoSession
      BY DEF DataInv, PushHolds
    <2> QED
      BY <2>1, <2>2
  <1>2. DataInv => NoGhostLink
    BY DEF DataInv
  <1> QED
    BY <1>1, <1>2, DataInitially, DataStep, PTL DEF DataSpec, DataAsTold, HeldDown

-----------------------------------------------------------------------------
(* Which modems are managed *)

RowSet == [managed : BOOLEAN, family : {"none", "agrees", "differs"}, since : Int, passes : Nat]

RegistryTypeOK ==
    /\ registered \in [Modems -> RowSet]
    /\ \A m \in Modems : ~registered[m].managed => registered[m] = NoRow
    /\ reconfirm # NoReconfirm => reconfirm.modem \in Modems
    /\ streak \in [Modems -> Nat] /\ \A m \in Modems : streak[m] <= GracePasses
    /\ stood \in [Modems -> Int]
    /\ alarmed \in [Modems -> BOOLEAN]
    /\ faults \in Nat

\* The countdown in m's row runs no faster than what really happened to it:
\* no more passes than verdicts, and no more time than has passed since the
\* first of them.  Only a row that could not be cleared is excepted, and that
\* was alarmed about.
RowIsHonest(m) ==
    \/ alarmed[m]
    \/ /\ registered[m].passes <= streak[m]
       /\ registered[m].since # NoMark => stood[m] >= 0 /\ stood[m] >= registered[m].since

CountdownHonest == \A m \in Modems : RowIsHonest(m)

\* The built-in matrix is at hand to judge m by, or was and a pass has kept it.
MayBeJudgedByBuiltin(m) ==
    m \notin live_matrix \/ (poll.step = "enforce" /\ m \notin poll.matrix)

\* While every matrix pushed admits m and was published: what is stored and
\* what is in force admits m, and each verdict against it has been paid for by
\* a fault, but for the one that the first push may race with.
RaceIsPaidFor(m) ==
    \/ unpublished
    \/ PushedAgainst(m)
    \/ /\ \A mx \in matrix_row : m \in mx
       /\ m \notin exec_matrix => m \notin live_matrix
       /\ authority = "Stored" => m \in live_matrix
       /\ MayBeJudgedByBuiltin(m) => registered[m].passes <= faults
       /\ registered[m].passes <= faults + 1

RacesPaidFor == \A m \in Modems : RaceIsPaidFor(m)

RegistryInv == RegistryTypeOK /\ CountdownHonest /\ RacesPaidFor

LEMMA RowTypes ==
  /\ NoRow \in RowSet /\ NoRow.passes = 0 /\ NoRow.since = NoMark /\ ~NoRow.managed
  /\ \A f \in {"none", "agrees", "differs"} :
        Row(f) \in RowSet /\ Row(f).passes = 0 /\ Row(f).since = NoMark /\ Row(f).managed
  BY DEF NoRow, Row, RowSet, NoMark

LEMMA ClearedRow ==
  ASSUME NEW r \in RowSet, ~r.managed => r = NoRow
  PROVE  /\ Cleared(r) \in RowSet /\ Cleared(r).passes = 0 /\ Cleared(r).since = NoMark
         /\ Cleared(r).managed = r.managed
         /\ ~Cleared(r).managed => Cleared(r) = NoRow
  <1> DEFINE i == [r EXCEPT !.since = NoMark]
             j == [i EXCEPT !.passes = 0]
  <1>1. i \in RowSet /\ i.since = NoMark /\ i.managed = r.managed
    BY DEF RowSet, NoMark
  <1> HIDE DEF i
  <1>2. j \in RowSet /\ j.since = NoMark /\ j.managed = r.managed /\ j.passes = 0
    BY <1>1 DEF RowSet
  <1>3. Cleared(r) = IF r.managed THEN j ELSE r
    BY DEF Cleared, i
  <1> HIDE DEF j
  <1> QED
    BY <1>2, <1>3, RowTypes

LEMMA RestartedRow ==
  ASSUME NEW r \in RowSet, ~r.managed => r = NoRow
  PROVE  /\ Restarted(r) \in RowSet /\ Restarted(r).passes = 0
         /\ r.managed => Restarted(r).since = 0
         /\ ~r.managed => Restarted(r) = NoRow
         /\ Restarted(r).managed = r.managed
  <1> DEFINE i == [r EXCEPT !.since = 0]
             j == [i EXCEPT !.passes = 0]
  <1>1. i \in RowSet /\ i.since = 0 /\ i.managed = r.managed
    BY DEF RowSet
  <1> HIDE DEF i
  <1>2. j \in RowSet /\ j.since = 0 /\ j.managed = r.managed /\ j.passes = 0
    BY <1>1 DEF RowSet
  <1>3. Restarted(r) = IF r.managed THEN j ELSE r
    BY DEF Restarted, i
  <1> HIDE DEF j
  <1> QED
    BY <1>2, <1>3, RowTypes

LEMMA MarkedRow ==
  ASSUME NEW r \in RowSet
  PROVE  /\ Marked(r) \in RowSet /\ Marked(r).managed = r.managed
         /\ Marked(r).passes = Capped(r.passes + 1, GracePasses)
         /\ Marked(r).passes <= r.passes + 1
         /\ Marked(r).since = IF r.since = NoMark THEN 0 ELSE r.since
  <1> DEFINE s == IF r.since = NoMark THEN 0 ELSE r.since
             p == Capped(r.passes + 1, GracePasses)
             i == [r EXCEPT !.since = s]
             j == [i EXCEPT !.passes = p]
  <1>1. s \in Int
    BY DEF RowSet
  <1>2. p \in Nat /\ p <= r.passes + 1
    BY RegistryAssumption DEF RowSet, Capped
  <1>3. Marked(r) = j
    BY DEF Marked, RowSet
  <1> HIDE DEF s, p
  <1>4. i \in RowSet /\ i.since = s /\ i.managed = r.managed
    BY <1>1 DEF RowSet
  <1> HIDE DEF i
  <1>5. j \in RowSet /\ j.since = s /\ j.managed = r.managed /\ j.passes = p
    BY <1>2, <1>4 DEF RowSet
  <1> HIDE DEF j
  <1> QED
    BY <1>2, <1>3, <1>5 DEF s, p

LEMMA ReadoptedRow ==
  ASSUME NEW r \in RowSet, r.managed
  PROVE  /\ Readopted(r) \in RowSet /\ Readopted(r).passes = 0 /\ Readopted(r).since = NoMark
         /\ Readopted(r).managed
  <1>1. Cleared(r) \in RowSet /\ Cleared(r).passes = 0 /\ Cleared(r).since = NoMark
        /\ Cleared(r).managed
    BY ClearedRow
  <1>2. \A c \in RowSet : LET d == [c EXCEPT !.family = "agrees"] IN
           /\ d \in RowSet /\ d.passes = c.passes /\ d.since = c.since /\ d.managed = c.managed
    BY DEF RowSet
  <1> QED
    BY <1>1, <1>2 DEF Readopted

LEMMA RegistryInitially == RegistryInit => RegistryInv
  <1> SUFFICES ASSUME RegistryInit PROVE RegistryInv
    OBVIOUS
  <1>1. \A m \in Modems : registered[m] \in {Row("agrees"), NoRow}
    BY DEF RegistryInit
  <1>2. \A m \in Modems : /\ registered[m] \in RowSet /\ registered[m].passes = 0
                          /\ registered[m].since = NoMark
                          /\ ~registered[m].managed => registered[m] = NoRow
    BY <1>1, RowTypes
  <1>3. registered \in [Modems -> RowSet]
    <2>1. \E f : registered = [m \in Modems |-> f[m]]
      <3>1. PICK managed \in {{}, Modems} :
               registered = [m \in Modems |-> IF m \in managed THEN Row("agrees") ELSE NoRow]
        BY DEF RegistryInit
      <3> QED
        BY <3>1
    <2> QED
      BY <1>2, <2>1
  <1>4. RegistryTypeOK
    BY <1>2, <1>3, RegistryAssumption DEF RegistryInit, RegistryTypeOK
  <1>5. CountdownHonest
    BY <1>2 DEF RegistryInit, CountdownHonest, RowIsHonest
  <1>6. RacesPaidFor
    <2> SUFFICES ASSUME NEW m \in Modems PROVE RaceIsPaidFor(m)
      BY DEF RacesPaidFor
    <2>1. registered[m].passes = 0 /\ faults = 0 /\ matrix_row = {} /\ authority = "BuiltinNoRow"
          /\ exec_matrix = live_matrix /\ live_matrix = {}
      BY <1>2 DEF RegistryInit, Builtin
    <2> QED
      BY <2>1 DEF RaceIsPaidFor
  <1> QED
    BY <1>4, <1>5, <1>6 DEF RegistryInv

\* What may still be in store for m does not grow: the matrices stay, its row
\* counts no more, and nothing new is kept to judge it by.
LEMMA RaceStands ==
  ASSUME NEW m \in Modems, RaceIsPaidFor(m), UNCHANGED <<matrixVars, pushVars>>,
         registered[m].passes \in Nat, registered'[m].passes \in Nat,
         registered'[m].passes <= registered[m].passes, faults \in Nat, faults' \in Nat,
         faults <= faults', MayBeJudgedByBuiltin(m)' => MayBeJudgedByBuiltin(m)
  PROVE  RaceIsPaidFor(m)'
  <1>1. /\ UNCHANGED unpublished /\ PushedAgainst(m)' = PushedAgainst(m) /\ matrix_row' = matrix_row
        /\ exec_matrix' = exec_matrix /\ live_matrix' = live_matrix /\ authority' = authority
    BY DEF matrixVars, pushVars, PushedAgainst
  <1> QED
    BY <1>1 DEF RaceIsPaidFor

\* m's history starts anew, and so does its row.
LEMMA StartsAnew ==
  ASSUME RegistryInv, NEW m \in Modems, NEW r \in RowSet, NEW t \in {-1, 0},
         registered' = [registered EXCEPT ![m] = r], r.passes = 0,
         r.since = NoMark \/ (r.since = 0 /\ t = 0), ~r.managed => r = NoRow,
         NewStreak(m, t), UNCHANGED <<poll, matrixVars>>,
         faults' \in Nat, faults <= faults',
         reconfirm' # NoReconfirm => reconfirm'.modem \in Modems
  PROVE  RegistryInv'
  <1>1. /\ registered' \in [Modems -> RowSet] /\ registered'[m] = r
        /\ \A x \in Modems \ {m} : registered'[x] = registered[x]
    BY DEF RegistryInv, RegistryTypeOK
  <1>2. /\ streak' \in [Modems -> Nat] /\ streak'[m] = 0
        /\ \A x \in Modems \ {m} : streak'[x] = streak[x]
    BY DEF RegistryInv, RegistryTypeOK, NewStreak
  <1>3. /\ stood' \in [Modems -> Int] /\ stood'[m] = t
        /\ \A x \in Modems \ {m} : stood'[x] = stood[x]
    BY DEF RegistryInv, RegistryTypeOK, NewStreak
  <1>4. alarmed' \in [Modems -> BOOLEAN] /\ \A x \in Modems \ {m} : alarmed'[x] = alarmed[x]
    BY DEF RegistryInv, RegistryTypeOK, NewStreak
  <1>5. \A x \in Modems : streak'[x] <= GracePasses
    BY <1>2, RegistryAssumption DEF RegistryInv, RegistryTypeOK
  <1>6. \A x \in Modems : ~registered'[x].managed => registered'[x] = NoRow
    BY <1>1 DEF RegistryInv, RegistryTypeOK
  <1>7. RegistryTypeOK'
    BY <1>1, <1>2, <1>3, <1>4, <1>5, <1>6 DEF RegistryInv, RegistryTypeOK
  <1>8. CountdownHonest'
    <2> SUFFICES ASSUME NEW x \in Modems PROVE RowIsHonest(x)'
      BY DEF CountdownHonest
    <2>1. CASE x = m
      BY <1>1, <1>2, <1>3, <2>1 DEF RowIsHonest
    <2>2. CASE x # m
      BY <1>1, <1>2, <1>3, <1>4, <2>2 DEF RowIsHonest, RegistryInv, CountdownHonest
    <2> QED
      BY <2>1, <2>2
  <1>9. RacesPaidFor'
    <2> SUFFICES ASSUME NEW x \in Modems PROVE RaceIsPaidFor(x)'
      BY DEF RacesPaidFor
    <2>1. registered[x].passes \in Nat /\ registered'[x].passes \in Nat
          /\ registered'[x].passes <= registered[x].passes /\ faults \in Nat
      BY <1>1 DEF RegistryInv, RegistryTypeOK, RowSet
    <2>2. MayBeJudgedByBuiltin(x)' => MayBeJudgedByBuiltin(x)
      BY DEF MayBeJudgedByBuiltin, matrixVars
    <2>3. UNCHANGED <<matrixVars, pushVars>>
      BY DEF NewStreak
    <2> QED
      BY <2>1, <2>2, <2>3, RaceStands DEF RegistryInv, RacesPaidFor
  <1> QED
    BY <1>7, <1>8, <1>9 DEF RegistryInv

LEMMA OperatorStep ==
  ASSUME RegistryInv, NEW m \in Modems, Register(m) \/ Unregister(m) \/ Create(m)
  PROVE  RegistryInv'
  <1>1. /\ faults \in Nat /\ registered[m] \in RowSet
        /\ (reconfirm # NoReconfirm => reconfirm.modem \in Modems)
    BY DEF RegistryInv, RegistryTypeOK
  <1>2. faults' \in Nat /\ faults <= faults' /\ reconfirm' = reconfirm
        /\ UNCHANGED <<poll, matrixVars>> /\ NewStreak(m, -1)
    BY <1>1 DEF Register, Unregister, Create, Fault
  <1>3. PICK r \in RowSet : /\ registered' = [registered EXCEPT ![m] = r] /\ r.passes = 0
                            /\ r.since = NoMark /\ (~r.managed => r = NoRow)
    <2>1. CASE Register(m)
      <3> DEFINE r == IF IsRegistered(m) THEN Readopted(registered[m]) ELSE Row("agrees")
      <3>1. registered' = [registered EXCEPT ![m] = r]
        BY <2>1 DEF Register
      <3>2. r \in RowSet /\ r.passes = 0 /\ r.since = NoMark /\ r.managed
        BY <1>1, ReadoptedRow, RowTypes DEF IsRegistered
      <3> HIDE DEF r
      <3> QED
        BY <3>1, <3>2
    <2>2. CASE Unregister(m)
      BY <2>2, RowTypes DEF Unregister
    <2>3. CASE Create(m)
      <3>1. PICK f \in {"none", "agrees", "differs"} : registered' = [registered EXCEPT ![m] = Row(f)]
        BY <2>3 DEF Create
      <3> QED
        BY <3>1, RowTypes
    <2> QED
      BY <2>1, <2>2, <2>3
  <1> QED
    BY <1>1, <1>2, <1>3, StartsAnew

LEMMA ReconfirmStep ==
  ASSUME RegistryInv, ReconfirmWrite PROVE RegistryInv'
  <1>1. PICK m \in Modems : m = reconfirm.modem
    BY DEF ReconfirmWrite, RegistryInv, RegistryTypeOK
  <1>2. PICK old \in RowSet : old = registered[m] /\ (~old.managed => old = NoRow)
    BY DEF RegistryInv, RegistryTypeOK
  <1>3. PICK t \in {-1, 0} : t = IF reconfirm.passes \/ ~old.managed THEN -1 ELSE 0
    OBVIOUS
  <1>4. PICK r \in RowSet :
           /\ r = IF reconfirm.passes THEN Cleared(old) ELSE Restarted(old)
           /\ r.passes = 0 /\ (~r.managed => r = NoRow)
           /\ r.since = NoMark \/ (r.since = 0 /\ t = 0)
    BY <1>2, <1>3, ClearedRow, RestartedRow, RowTypes
  <1>5. registered' = [registered EXCEPT ![m] = r]
    BY <1>1, <1>2, <1>4 DEF ReconfirmWrite
  <1>6. NewStreak(m, t) /\ UNCHANGED <<poll, matrixVars>>
    BY <1>1, <1>2, <1>3 DEF ReconfirmWrite, IsRegistered
  <1>7. faults' \in Nat /\ faults <= faults' /\ reconfirm' = NoReconfirm
    BY DEF ReconfirmWrite, RegistryInv, RegistryTypeOK
  <1> QED
    BY <1>4, <1>5, <1>6, <1>7, StartsAnew

Verdict == {"Hold", "Keep", "Quarantine", "Unbind"}

\* What a verdict against m rests on, and what one that retires it rests on.
LEMMA JudgeIs ==
  ASSUME NEW m \in Modems
  PROVE  /\ Judge(m) \in Verdict
         /\ Judge(m) \in {"Quarantine", "Unbind"} => authority = "Stored" /\ m \notin poll.matrix
         /\ Judge(m) = "Unbind" => /\ Elapsed(registered[m]) >= Grace
                                   /\ registered[m].passes + 1 >= GracePasses
  BY DEF Judge, Verdict, MayUnbind

\* One pass over one modem: what becomes of its row and of its history.
EnforcedOne(m, j, failed, kept) ==
    LET after == RowAfter(m, j, failed, kept)
        retired == registered[m].managed /\ ~after.managed
    IN  /\ registered'[m] = after
        /\ streak'[m] = IF j = "Keep" \/ retired THEN 0
                        ELSE IF j \in {"Quarantine", "Unbind"}
                        THEN Capped(streak[m] + 1, GracePasses) ELSE streak[m]
        /\ stood'[m] = IF j = "Keep" \/ retired THEN -1
                       ELSE IF j \in {"Quarantine", "Unbind"} THEN Max({0, stood[m]}) ELSE stood[m]
        /\ alarmed'[m] = IF j = "Keep" THEN m \in failed ELSE alarmed[m] /\ ~retired

LEMMA MaxOfTwo ==
  ASSUME NEW k \in Int, NEW i \in Int
  PROVE  Max({k, i}) \in Int /\ Max({k, i}) >= k /\ Max({k, i}) >= i
         /\ (Max({k, i}) = k \/ Max({k, i}) = i)
  <1>1. \E x \in {k, i} : \A y \in {k, i} : x >= y
    OBVIOUS
  <1> QED
    BY <1>1 DEF Max

\* The pass as it is for each modem.
LEMMA EnforceEach ==
  ASSUME RegistryInv, Enforce
  PROVE  \E unreadable, failed, kept \in SUBSET Managed :
            /\ \A m \in Modems : EnforcedOne(m, Judgements(unreadable)[m], failed, kept)
            /\ registered' = [m \in Modems |-> registered'[m]]
            /\ streak' = [m \in Modems |-> streak'[m]]
            /\ stood' = [m \in Modems |-> stood'[m]]
            /\ alarmed' = [m \in Modems |-> alarmed'[m]]
            /\ {m \in Managed : ~registered'[m].managed} \subseteq retirements'
            /\ {m \in Managed : ~registered'[m].managed} # {} => "retro_unbound" \in alerts'
  <1>1. PICK unreadable \in SUBSET Managed, failed \in SUBSET Managed, kept \in SUBSET Managed :
           EnforceAll(unreadable, failed, kept)
    BY DEF Enforce
  <1> DEFINE judgement == Judgements(unreadable)
             after == [m \in Modems |-> RowAfter(m, judgement[m], failed, kept)]
             against == {m \in Modems : judgement[m] \in {"Quarantine", "Unbind"}}
             passed == {m \in Modems : judgement[m] = "Keep"}
             retired == {m \in Managed : ~after[m].managed}
  <1> HIDE DEF judgement
  <1>2. /\ registered' = after
        /\ alerts' = PlanAlerts(judgement, unreadable, retired)
        /\ retirements' = retirements \cup retired
        /\ streak' = [m \in Modems |->
               IF m \in passed \cup retired THEN 0
               ELSE IF m \in against THEN Capped(streak[m] + 1, GracePasses)
               ELSE streak[m]]
        /\ stood' = [m \in Modems |->
               IF m \in passed \cup retired THEN -1
               ELSE IF m \in against THEN Max({0, stood[m]}) ELSE stood[m]]
        /\ alarmed' = [m \in Modems |->
               IF m \in passed THEN m \in failed
               ELSE alarmed[m] /\ m \notin retired]
    BY <1>1 DEF EnforceAll, judgement
  <1>3. ASSUME NEW m \in Modems PROVE EnforcedOne(m, judgement[m], failed, kept)
    <2>1. m \in retired <=> registered[m].managed /\ ~RowAfter(m, judgement[m], failed, kept).managed
      BY DEF Managed, IsRegistered
    <2>2. m \in passed <=> judgement[m] = "Keep"
      OBVIOUS
    <2>3. m \in against <=> judgement[m] \in {"Quarantine", "Unbind"}
      OBVIOUS
    <2>4. registered'[m] = RowAfter(m, judgement[m], failed, kept)
      BY <1>2
    <2> HIDE DEF retired, passed, against, after
    <2>5. streak'[m] = IF m \in passed \cup retired THEN 0
                       ELSE IF m \in against THEN Capped(streak[m] + 1, GracePasses)
                       ELSE streak[m]
      BY <1>2
    <2>6. stood'[m] = IF m \in passed \cup retired THEN -1
                      ELSE IF m \in against THEN Max({0, stood[m]}) ELSE stood[m]
      BY <1>2
    <2>7. alarmed'[m] = IF m \in passed THEN m \in failed ELSE alarmed[m] /\ m \notin retired
      BY <1>2
    <2> QED
      BY <2>1, <2>2, <2>3, <2>4, <2>5, <2>6, <2>7 DEF EnforcedOne
  <1>4. {m \in Managed : ~registered'[m].managed} = retired
    BY <1>2 DEF Managed
  <1>5. retired # {} => "retro_unbound" \in alerts'
    <2> HIDE DEF retired
    <2> QED
      BY <1>2 DEF PlanAlerts
  <1>6. retired \subseteq retirements'
    <2> HIDE DEF retired
    <2> QED
      BY <1>2
  <1>7. /\ registered' = [m \in Modems |-> registered'[m]]
        /\ streak' = [m \in Modems |-> streak'[m]]
        /\ stood' = [m \in Modems |-> stood'[m]]
        /\ alarmed' = [m \in Modems |-> alarmed'[m]]
    <2> HIDE DEF retired, passed, against
    <2> QED
      BY <1>2
  <1> HIDE DEF retired, passed, against, after
  <1> QED
    BY <1>3, <1>4, <1>5, <1>6, <1>7 DEF judgement

\* What a pass does to one row: m is retired, or its row is left, cleared or
\* marked.
LEMMA RowAfterIs ==
  ASSUME RegistryInv, NEW m \in Modems, NEW j \in Verdict, NEW failed, NEW kept,
         j # "Hold" => registered[m].managed
  PROVE  LET r == registered[m]
             a == RowAfter(m, j, failed, kept)
         IN  /\ a \in RowSet /\ (~a.managed => a = NoRow)
             /\ \/ j = "Unbind" /\ a = NoRow
                \/ a = r /\ (j = "Keep" => m \in failed)
                \/ j = "Keep" /\ a = Cleared(r) /\ a.managed
                \/ j \in {"Quarantine", "Unbind"} /\ a = Marked(r) /\ a.managed
  <1>1. registered[m] \in RowSet /\ (~registered[m].managed => registered[m] = NoRow)
    BY DEF RegistryInv, RegistryTypeOK
  <1>2. /\ Cleared(registered[m]) \in RowSet
        /\ Cleared(registered[m]).managed = registered[m].managed
        /\ Marked(registered[m]) \in RowSet
        /\ Marked(registered[m]).managed = registered[m].managed
    BY <1>1, ClearedRow, MarkedRow
  <1> QED
    BY <1>1, <1>2, RowTypes DEF RowAfter, Verdict

LEMMA EnforcedHonest ==
  ASSUME RegistryInv, NEW m \in Modems, NEW j \in Verdict, NEW failed, NEW kept,
         j # "Hold" => registered[m].managed, EnforcedOne(m, j, failed, kept)
  PROVE  /\ registered'[m] \in RowSet /\ (~registered'[m].managed => registered'[m] = NoRow)
         /\ streak'[m] \in Nat /\ streak'[m] <= GracePasses
         /\ stood'[m] \in Int /\ alarmed'[m] \in BOOLEAN
         /\ RowIsHonest(m)'
  <1> DEFINE r == registered[m]
             a == RowAfter(m, j, failed, kept)
             retired == r.managed /\ ~a.managed
             against == j \in {"Quarantine", "Unbind"}
  <1>1. /\ r \in RowSet /\ r.passes \in Nat /\ r.since \in Int
        /\ streak[m] \in Nat /\ streak[m] <= GracePasses
        /\ stood[m] \in Int /\ alarmed[m] \in BOOLEAN /\ GracePasses \in Nat
        /\ RowIsHonest(m)
    BY RegistryAssumption DEF RegistryInv, RegistryTypeOK, CountdownHonest, RowSet
  <1>2. /\ registered'[m] = a
        /\ streak'[m] = IF j = "Keep" \/ retired THEN 0
                        ELSE IF against THEN Capped(streak[m] + 1, GracePasses) ELSE streak[m]
        /\ stood'[m] = IF j = "Keep" \/ retired THEN -1
                       ELSE IF against THEN Max({0, stood[m]}) ELSE stood[m]
        /\ alarmed'[m] = IF j = "Keep" THEN m \in failed ELSE alarmed[m] /\ ~retired
    BY DEF EnforcedOne
  <1>3. /\ a \in RowSet /\ (~a.managed => a = NoRow)
        /\ \/ j = "Unbind" /\ a = NoRow
           \/ a = r /\ (j = "Keep" => m \in failed)
           \/ j = "Keep" /\ a = Cleared(r) /\ a.managed
           \/ against /\ a = Marked(r) /\ a.managed
    BY RowAfterIs
  <1>4. /\ Cleared(r).passes = 0 /\ Cleared(r).since = NoMark
        /\ NoRow.passes = 0 /\ NoRow.since = NoMark /\ ~NoRow.managed
    BY <1>1, ClearedRow, RowTypes DEF RegistryInv, RegistryTypeOK
  <1>5. /\ Marked(r).passes = Capped(r.passes + 1, GracePasses)
        /\ Marked(r).since = IF r.since = NoMark THEN 0 ELSE r.since
    BY <1>1, MarkedRow
  <1>6. /\ Max({0, stood[m]}) \in Int /\ Max({0, stood[m]}) >= 0 /\ Max({0, stood[m]}) >= stood[m]
    <2>1. PICK z \in Int : z = 0
      OBVIOUS
    <2>2. PICK s \in Int : s = stood[m]
      BY <1>1
    <2>3. Max({z, s}) \in Int /\ Max({z, s}) >= z /\ Max({z, s}) >= s
      BY MaxOfTwo
    <2> QED
      BY <2>1, <2>2, <2>3
  <1>7. Capped(streak[m] + 1, GracePasses) \in Nat
        /\ Capped(streak[m] + 1, GracePasses) <= GracePasses
        /\ Capped(streak[m] + 1, GracePasses) >= streak[m]
        /\ (r.passes <= streak[m] => Capped(r.passes + 1, GracePasses)
                                        <= Capped(streak[m] + 1, GracePasses))
    BY <1>1 DEF Capped
  <1>8. j \in {"Hold", "Keep", "Quarantine", "Unbind"}
    BY DEF Verdict
  <1> HIDE DEF a
  <1>9. streak'[m] \in Nat /\ streak'[m] <= GracePasses
    BY <1>1, <1>2, <1>7
  <1>10. stood'[m] \in Int /\ alarmed'[m] \in BOOLEAN
    <2>1. stood'[m] \in Int
      BY <1>1, <1>2, <1>6
    <2>2. CASE j = "Keep"
      BY <1>2, <2>1, <2>2
    <2>3. CASE j # "Keep"
      BY <1>2, <2>1, <2>3
    <2> QED
      BY <2>2, <2>3
  <1>11. \/ alarmed'[m]
         \/ /\ a.passes <= streak'[m]
            /\ a.since # NoMark => stood'[m] >= 0 /\ stood'[m] >= a.since
    <2>1. CASE j = "Unbind" /\ a = NoRow
      BY <1>4, <1>9, <2>1
    <2>2. CASE a = r /\ (j = "Keep" => m \in failed)
      <3>1. CASE j = "Keep"
        BY <1>2, <2>2, <3>1
      <3>2. CASE j # "Keep"
        <4>1. ~retired
          BY <2>2
        <4>2. alarmed'[m] = alarmed[m]
          BY <1>1, <1>2, <3>2, <4>1
        <4>3. /\ streak'[m] = IF against THEN Capped(streak[m] + 1, GracePasses) ELSE streak[m]
              /\ stood'[m] = IF against THEN Max({0, stood[m]}) ELSE stood[m]
          BY <1>2, <3>2, <4>1
        <4>4. streak'[m] >= streak[m] /\ stood'[m] >= stood[m]
          BY <1>1, <1>6, <1>7, <4>3
        <4>5. alarmed[m] \/ (r.passes <= streak[m]
                 /\ (r.since # NoMark => stood[m] >= 0 /\ stood[m] >= r.since))
          BY <1>1 DEF RowIsHonest
        <4> QED
          BY <1>1, <1>9, <1>10, <2>2, <4>2, <4>4, <4>5
      <3> QED
        BY <3>1, <3>2
    <2>3. CASE j = "Keep" /\ a = Cleared(r) /\ a.managed
      BY <1>4, <1>9, <2>3
    <2>4. CASE against /\ a = Marked(r) /\ a.managed
      <3>1. ~retired /\ j # "Keep"
        BY <2>4
      <3>2. alarmed'[m] = alarmed[m] /\ streak'[m] = Capped(streak[m] + 1, GracePasses)
            /\ stood'[m] = Max({0, stood[m]})
        BY <1>1, <1>2, <2>4, <3>1
      <3>3. alarmed[m] \/ (r.passes <= streak[m]
               /\ (r.since # NoMark => stood[m] >= 0 /\ stood[m] >= r.since))
        BY <1>1 DEF RowIsHonest
      <3> HIDE DEF r
      <3>4. CASE alarmed[m]
        BY <3>2, <3>4
      <3>5. CASE /\ r.passes <= streak[m]
                 /\ r.since # NoMark => stood[m] >= 0 /\ stood[m] >= r.since
        <4>1. a.passes <= streak'[m]
          BY <1>5, <1>7, <2>4, <3>2, <3>5
        <4>2. a.since = IF r.since = NoMark THEN 0 ELSE r.since
          BY <1>5, <2>4
        <4>3. stood'[m] >= 0 /\ stood'[m] >= a.since
          BY <1>1, <1>6, <3>2, <3>5, <4>2
        <4> QED
          BY <4>1, <4>3
      <3> QED
        BY <3>3, <3>4, <3>5
    <2> QED
      BY <1>3, <2>1, <2>2, <2>3, <2>4
  <1>12. RowIsHonest(m)'
    BY <1>2, <1>11 DEF RowIsHonest
  <1> QED
    BY <1>2, <1>3, <1>9, <1>10, <1>12

\* The verdict of a pass on one modem: only a managed one is judged at all.
LEMMA JudgementIs ==
  ASSUME NEW m \in Modems, NEW unreadable
  PROVE  LET j == Judgements(unreadable)[m]
         IN  /\ j \in Verdict
             /\ j # "Hold" => registered[m].managed /\ j = Judge(m)
  BY JudgeIs DEF Judgements, Managed, IsRegistered, Verdict

\* A verdict against m that its matrices do not justify uses up the one that
\* may race with a push.
LEMMA EnforcedPaidFor ==
  ASSUME RegistryInv, NEW m \in Modems, NEW j \in Verdict, NEW failed, NEW kept,
         j # "Hold" => registered[m].managed /\ j = Judge(m),
         EnforcedOne(m, j, failed, kept),
         poll.step = "enforce", poll' = Idle, UNCHANGED <<matrixVars, pushVars>>,
         faults' \in Nat, faults <= faults'
  PROVE  RaceIsPaidFor(m)'
  <1> DEFINE r == registered[m]
             a == RowAfter(m, j, failed, kept)
  <1>1. /\ r \in RowSet /\ r.passes \in Nat /\ RaceIsPaidFor(m) /\ faults \in Nat
        /\ (~r.managed => r = NoRow)
    BY DEF RegistryInv, RegistryTypeOK, RacesPaidFor, RowSet
  <1>2. registered'[m] = a /\ a \in RowSet /\ a.passes \in Nat
    BY RowAfterIs DEF EnforcedOne, RowSet
  <1>3. a.passes <= r.passes \/ (j \in {"Quarantine", "Unbind"} /\ a.passes <= r.passes + 1)
    BY <1>1, RowAfterIs, ClearedRow, MarkedRow, RowTypes
  <1>4. ~(poll'.step = "enforce")
    BY DEF Idle
  <1>5. MayBeJudgedByBuiltin(m)' => m \notin live_matrix
    BY <1>4 DEF MayBeJudgedByBuiltin, matrixVars
  <1> HIDE DEF a, r
  <1>6. CASE a.passes <= r.passes
    <2>1. MayBeJudgedByBuiltin(m)' => MayBeJudgedByBuiltin(m)
      BY <1>5 DEF MayBeJudgedByBuiltin
    <2> QED
      BY <1>1, <1>2, <1>6, <2>1, RaceStands DEF r
  <1>7. CASE j \in {"Quarantine", "Unbind"} /\ a.passes <= r.passes + 1
    <2>1. authority = "Stored" /\ m \notin poll.matrix
      BY <1>7, JudgeIs
    <2>2. MayBeJudgedByBuiltin(m)
      BY <2>1 DEF MayBeJudgedByBuiltin
    <2>3. /\ unpublished' = unpublished /\ PushedAgainst(m)' = PushedAgainst(m)
          /\ matrix_row' = matrix_row /\ exec_matrix' = exec_matrix
          /\ live_matrix' = live_matrix /\ authority' = authority
      BY DEF matrixVars, pushVars, PushedAgainst
    <2>4. CASE unpublished \/ PushedAgainst(m)
      BY <2>3, <2>4 DEF RaceIsPaidFor
    <2>5. CASE ~(unpublished \/ PushedAgainst(m))
      <3>1. /\ \A mx \in matrix_row : m \in mx
            /\ m \in live_matrix /\ r.passes <= faults
        BY <1>1, <2>1, <2>2, <2>5 DEF RaceIsPaidFor, r
      <3>2. registered'[m].passes <= faults' + 1
        BY <1>1, <1>2, <1>7, <3>1
      <3>3. ~MayBeJudgedByBuiltin(m)'
        BY <1>5, <3>1
      <3>4. m \in exec_matrix
        BY <1>1, <2>5, <3>1 DEF RaceIsPaidFor
      <3> QED
        BY <2>3, <3>1, <3>2, <3>3, <3>4 DEF RaceIsPaidFor
    <2> QED
      BY <2>4, <2>5
  <1> QED
    BY <1>3, <1>6, <1>7

LEMMA EnforceStep ==
  ASSUME RegistryInv, Enforce PROVE RegistryInv'
  <1>1. PICK unreadable \in SUBSET Managed, failed \in SUBSET Managed, kept \in SUBSET Managed :
           /\ \A m \in Modems : EnforcedOne(m, Judgements(unreadable)[m], failed, kept)
           /\ registered' = [m \in Modems |-> registered'[m]]
           /\ streak' = [m \in Modems |-> streak'[m]]
           /\ stood' = [m \in Modems |-> stood'[m]]
           /\ alarmed' = [m \in Modems |-> alarmed'[m]]
    BY EnforceEach
  <1>2. /\ poll.step = "enforce" /\ poll' = Idle /\ UNCHANGED <<matrixVars, pushVars>>
        /\ reconfirm' = reconfirm
    BY DEF Enforce
  <1>3. faults' \in Nat /\ faults <= faults'
    BY DEF Enforce, Fault, RegistryInv, RegistryTypeOK
  <1>4. ASSUME NEW m \in Modems
        PROVE  /\ registered'[m] \in RowSet /\ (~registered'[m].managed => registered'[m] = NoRow)
               /\ streak'[m] \in Nat /\ streak'[m] <= GracePasses
               /\ stood'[m] \in Int /\ alarmed'[m] \in BOOLEAN
               /\ RowIsHonest(m)' /\ RaceIsPaidFor(m)'
    <2>1. PICK j \in Verdict : /\ j = Judgements(unreadable)[m]
                               /\ j # "Hold" => registered[m].managed /\ j = Judge(m)
      BY JudgementIs
    <2>2. EnforcedOne(m, j, failed, kept)
      BY <1>1, <2>1
    <2> QED
      BY <1>2, <1>3, <2>1, <2>2, EnforcedHonest, EnforcedPaidFor
  <1>5. registered' \in [Modems -> RowSet]
    BY <1>1, <1>4
  <1>6. streak' \in [Modems -> Nat] /\ stood' \in [Modems -> Int]
    BY <1>1, <1>4
  <1>7. alarmed' \in [Modems -> BOOLEAN]
    BY <1>1, <1>4
  <1>8. RegistryTypeOK'
    BY <1>2, <1>3, <1>4, <1>5, <1>6, <1>7 DEF RegistryTypeOK, RegistryInv
  <1> QED
    BY <1>4, <1>8 DEF RegistryInv, CountdownHonest, RacesPaidFor

\* Time moves a row's mark and nothing else of it; only where there is a mark.
Aged(row, d) ==
    IF row.since = NoMark THEN row
    ELSE [row EXCEPT !.since = Max({-1, Capped(@ + d, Grace)})]

LEMMA AgedRow ==
  ASSUME NEW r \in RowSet, NEW d \in {-1, 1}, ~r.managed => r = NoRow
  PROVE  /\ Aged(r, d) \in RowSet /\ Aged(r, d).passes = r.passes
         /\ ~Aged(r, d).managed => Aged(r, d) = NoRow
         /\ r.since = NoMark => Aged(r, d).since = NoMark
         /\ r.since # NoMark => \/ Aged(r, d).since = -1
                                \/ /\ Aged(r, d).since <= r.since + d
                                   /\ Aged(r, d).since <= Grace
  <1>1. CASE r.since = NoMark
    BY <1>1 DEF Aged
  <1>2. CASE r.since # NoMark
    <2>1. PICK c \in Int : c = Capped(r.since + d, Grace) /\ c <= r.since + d /\ c <= Grace
      BY RegistryAssumption DEF Capped, RowSet
    <2>2. PICK s \in Int : s = Max({-1, c}) /\ (s = -1 \/ s = c)
      <3>1. PICK k \in Int : k = -1
        OBVIOUS
      <3>2. Max({k, c}) \in Int /\ (Max({k, c}) = k \/ Max({k, c}) = c)
        BY MaxOfTwo
      <3> QED
        BY <3>1, <3>2
    <2>3. Aged(r, d) = [r EXCEPT !.since = s]
      BY <1>2, <2>1, <2>2 DEF Aged
    <2>4. r.managed
      BY <1>2, RowTypes
    <2>5. /\ Aged(r, d) \in RowSet /\ Aged(r, d).passes = r.passes /\ Aged(r, d).since = s
          /\ Aged(r, d).managed = r.managed
      BY <2>3 DEF RowSet
    <2> QED
      BY <1>2, <2>1, <2>2, <2>4, <2>5
  <1> QED
    BY <1>1, <1>2

LEMMA AgeStep ==
  ASSUME RegistryInv, Tick \/ ClockBack PROVE RegistryInv'
  <1>1. PICK d \in {-1, 1} : Age(d) /\ (d = 1 => Tick) /\ (d = -1 => ClockBack)
    BY DEF Tick, ClockBack
  <1>2. registered' = [m \in Modems |-> Aged(registered[m], d)]
    BY <1>1 DEF Age, Aged
  <1>3. /\ UNCHANGED <<matrixVars, poll, reconfirm, streak, alarmed, pushVars>>
        /\ faults' \in Nat /\ faults <= faults'
    BY <1>1 DEF Age, Tick, ClockBack, Fault, RegistryInv, RegistryTypeOK
  <1>4. \A m \in Modems : stood'[m] = IF d = 1 /\ stood[m] # -1 THEN Capped(stood[m] + 1, Grace)
                                      ELSE stood[m]
    BY <1>1 DEF Tick, ClockBack
  <1>5. stood' = [m \in Modems |-> stood'[m]]
    BY <1>1 DEF Tick, ClockBack, RegistryInv, RegistryTypeOK
  <1>6. ASSUME NEW m \in Modems
        PROVE  /\ registered'[m] \in RowSet /\ registered'[m].passes = registered[m].passes
               /\ ~registered'[m].managed => registered'[m] = NoRow
               /\ stood'[m] \in Int /\ RowIsHonest(m)'
    <2>1. PICK r \in RowSet : r = registered[m] /\ (~r.managed => r = NoRow)
      BY DEF RegistryInv, RegistryTypeOK
    <2>2. PICK a \in RowSet : /\ a = Aged(r, d) /\ a.passes = r.passes
                              /\ ~a.managed => a = NoRow
                              /\ r.since = NoMark => a.since = NoMark
                              /\ r.since # NoMark => a.since = -1 \/ (a.since <= r.since + d
                                                                      /\ a.since <= Grace)
      BY <2>1, AgedRow
    <2>3. registered'[m] = a
      BY <1>2, <2>1, <2>2
    <2>4. /\ stood[m] \in Int /\ Grace \in Nat \ {0} /\ r.since \in Int /\ a.since \in Int
          /\ streak'[m] = streak[m] /\ alarmed'[m] = alarmed[m]
      BY <1>3, RegistryAssumption DEF RegistryInv, RegistryTypeOK, RowSet
    <2>5. stood'[m] \in Int
      BY <1>4, <2>4 DEF Capped
    <2>6. RowIsHonest(m)
      BY DEF RegistryInv, CountdownHonest
    <2>7. r.since # NoMark /\ stood[m] >= 0 /\ stood[m] >= r.since
             => stood'[m] >= 0 /\ stood'[m] >= a.since
      BY <1>4, <2>2, <2>4 DEF Capped
    <2>8. RowIsHonest(m)'
      BY <2>1, <2>2, <2>3, <2>4, <2>6, <2>7 DEF RowIsHonest
    <2> QED
      BY <2>1, <2>2, <2>3, <2>5, <2>8
  <1>7. registered' \in [Modems -> RowSet]
    BY <1>2, <1>6
  <1>8. stood' \in [Modems -> Int]
    BY <1>5, <1>6
  <1>9. RegistryTypeOK'
    BY <1>3, <1>6, <1>7, <1>8 DEF RegistryInv, RegistryTypeOK
  <1>10. RacesPaidFor'
    <2> SUFFICES ASSUME NEW m \in Modems PROVE RaceIsPaidFor(m)'
      BY DEF RacesPaidFor
    <2>1. MayBeJudgedByBuiltin(m)' => MayBeJudgedByBuiltin(m)
      BY <1>3 DEF MayBeJudgedByBuiltin, matrixVars
    <2>2. registered[m].passes \in Nat /\ faults \in Nat /\ RaceIsPaidFor(m)
      BY DEF RegistryInv, RegistryTypeOK, RacesPaidFor, RowSet
    <2> QED
      BY <1>3, <1>6, <2>1, <2>2, RaceStands
  <1> QED
    BY <1>6, <1>9, <1>10 DEF RegistryInv, CountdownHonest

\* The steps that touch neither the registry nor a matrix, nor keep a new one
\* to judge by.
LEMMA QuietRegistryStep ==
  ASSUME RegistryInv,
         \/ Probe \/ CloneMatrix \/ EnforceVoid \/ Resumed \/ UNCHANGED registryVars
         \/ \E m \in Modems : UpdateNote(m) \/ ReconfirmRead(m)
  PROVE  RegistryInv'
  <1>1. UNCHANGED <<registered, matrixVars, streak, stood, alarmed, pushVars>>
    BY DEF Probe, CloneMatrix, EnforceVoid, Resumed, UpdateNote, ReconfirmRead, registryVars,
           historyVars, tableVars
  <1>2. faults' \in Nat /\ faults <= faults'
    BY DEF Probe, CloneMatrix, EnforceVoid, Resumed, UpdateNote, ReconfirmRead, registryVars,
           Fault, RegistryInv, RegistryTypeOK
  <1>3. reconfirm' # NoReconfirm => reconfirm'.modem \in Modems
    BY DEF Probe, CloneMatrix, EnforceVoid, Resumed, UpdateNote, ReconfirmRead, registryVars,
           RegistryInv, RegistryTypeOK
  <1>4. \/ poll' = poll \/ poll'.step # "enforce"
        \/ poll'.matrix = live_matrix
    BY DEF Probe, CloneMatrix, EnforceVoid, Resumed, UpdateNote, ReconfirmRead, registryVars, Idle
  <1>5. RegistryTypeOK'
    BY <1>1, <1>2, <1>3 DEF RegistryInv, RegistryTypeOK
  <1>6. CountdownHonest'
    BY <1>1 DEF RegistryInv, CountdownHonest, RowIsHonest
  <1>7. RacesPaidFor'
    <2> SUFFICES ASSUME NEW m \in Modems PROVE RaceIsPaidFor(m)'
      BY DEF RacesPaidFor
    <2>1. MayBeJudgedByBuiltin(m)' => MayBeJudgedByBuiltin(m)
      BY <1>1, <1>4 DEF MayBeJudgedByBuiltin, matrixVars
    <2>2. /\ registered[m].passes \in Nat /\ faults \in Nat /\ RaceIsPaidFor(m)
          /\ registered'[m] = registered[m]
      BY <1>1 DEF RegistryInv, RegistryTypeOK, RacesPaidFor, RowSet
    <2> QED
      BY <1>1, <1>2, <2>1, <2>2, RaceStands
  <1> QED
    BY <1>5, <1>6, <1>7 DEF RegistryInv

\* The steps that change what the modems are judged by.
LEMMA MatrixStep ==
  ASSUME RegistryInv, OtherCommand \/ Restart \/ \E mx \in Matrices : PushMatrix(mx)
  PROVE  RegistryInv'
  <1>1. UNCHANGED <<registered, streak, stood, alarmed>>
    BY DEF OtherCommand, Restart, PushMatrix, historyVars, tableVars
  <1>2. faults \in Nat /\ faults' \in Nat /\ faults <= faults'
    BY DEF OtherCommand, Restart, PushMatrix, Fault, RegistryInv, RegistryTypeOK
  <1>3. reconfirm' # NoReconfirm => reconfirm'.modem \in Modems
    BY DEF OtherCommand, Restart, PushMatrix, RegistryInv, RegistryTypeOK
  <1>4. RegistryTypeOK'
    BY <1>1, <1>2, <1>3 DEF RegistryInv, RegistryTypeOK
  <1>5. CountdownHonest'
    BY <1>1 DEF RegistryInv, CountdownHonest, RowIsHonest
  <1>6. ASSUME NEW m \in Modems PROVE RaceIsPaidFor(m)'
    <2>1. /\ registered[m].passes \in Nat /\ RaceIsPaidFor(m) /\ registered'[m] = registered[m]
      BY <1>1 DEF RegistryInv, RegistryTypeOK, RacesPaidFor, RowSet
    <2>2. CASE OtherCommand
      <3>1. /\ UNCHANGED <<matrix_row, exec_matrix, authority, poll, pushed, unpublished, faults>>
            /\ live_matrix' = exec_matrix
        BY <2>2 DEF OtherCommand, historyVars, pushVars
      <3> QED
        BY <1>2, <2>1, <3>1 DEF RaceIsPaidFor, MayBeJudgedByBuiltin, PushedAgainst
    <2>3. CASE Restart
      <3>1. /\ UNCHANGED <<matrix_row, pushed, unpublished>>
            /\ faults' = faults + 1 /\ live_matrix' = exec_matrix'
            /\ authority' = "Stored" => exec_matrix' \in matrix_row
        BY <2>3 DEF Restart, Fault, historyVars, pushVars
      <3> QED
        BY <1>2, <2>1, <3>1 DEF RaceIsPaidFor, PushedAgainst
    <2>4. ASSUME NEW mx \in Matrices, PushMatrix(mx) PROVE RaceIsPaidFor(m)'
      <3>1. pushed' = pushed \cup {mx} /\ exec_matrix' = mx /\ UNCHANGED poll
        BY <2>4 DEF PushMatrix
      <3>2. CASE m \notin mx
        BY <3>1, <3>2 DEF RaceIsPaidFor, PushedAgainst
      <3>3. CASE m \in mx
        <4>1. PushedAgainst(m)' <=> PushedAgainst(m)
          BY <3>1, <3>3 DEF PushedAgainst
        <4>2. CASE unpublished'
          BY <4>2 DEF RaceIsPaidFor
        <4>3. CASE ~unpublished'
          <5>1. /\ live_matrix' = mx /\ unpublished' = unpublished
                /\ matrix_row' = {mx} \/ UNCHANGED matrix_row
            BY <2>4, <4>3 DEF PushMatrix
          <5>2. m \in live_matrix' /\ (MayBeJudgedByBuiltin(m)' => MayBeJudgedByBuiltin(m))
            BY <3>1, <3>3, <5>1 DEF MayBeJudgedByBuiltin
          <5> QED
            BY <1>2, <2>1, <3>1, <3>3, <4>1, <5>1, <5>2 DEF RaceIsPaidFor
        <4> QED
          BY <4>2, <4>3
      <3> QED
        BY <3>2, <3>3
    <2> QED
      BY <2>2, <2>3, <2>4
  <1> QED
    BY <1>4, <1>5, <1>6 DEF RegistryInv, RacesPaidFor

LEMMA RegistryStep ==
  ASSUME RegistryInv, [RegistryNext]_registryVars PROVE RegistryInv'
  BY OperatorStep, ReconfirmStep, EnforceStep, AgeStep, QuietRegistryStep, MatrixStep
     DEF RegistryNext

\* A modem goes only by a pass that judged it so.
LEMMA RetiredByVerdict ==
  ASSUME RegistryInv, RegistryNext, NEW m \in Modems, Retires(m)
  PROVE  /\ Judge(m) = "Unbind"
         /\ m \in retirements' /\ "retro_unbound" \in alerts'
  <1>1. /\ poll.step = "enforce" /\ poll' = Idle /\ poll' # poll
        /\ registered' # registered
    BY DEF Retires, Idle, Managed, IsRegistered
  <1>2. Enforce
    BY <1>1, Zenon
       DEF RegistryNext, Probe, CloneMatrix, EnforceVoid, Register, Unregister, Create, UpdateNote,
           ReconfirmRead, ReconfirmWrite, PushMatrix, OtherCommand, Resumed, Restart, Tick,
           ClockBack, Age, Idle, tableVars, registryVars
  <1>3. PICK unreadable \in SUBSET Managed, failed \in SUBSET Managed, kept \in SUBSET Managed :
           /\ \A x \in Modems : EnforcedOne(x, Judgements(unreadable)[x], failed, kept)
           /\ {x \in Managed : ~registered'[x].managed} \subseteq retirements'
           /\ {x \in Managed : ~registered'[x].managed} # {} => "retro_unbound" \in alerts'
    BY <1>2, EnforceEach
  <1>4. registered[m].managed /\ ~registered'[m].managed
    BY DEF Retires, Managed, IsRegistered
  <1>5. m \in {x \in Managed : ~registered'[x].managed}
    BY <1>4 DEF Retires
  <1>6. PICK j \in Verdict : /\ j = Judgements(unreadable)[m]
                             /\ j # "Hold" => registered[m].managed /\ j = Judge(m)
    BY JudgementIs
  <1>7. registered'[m] = RowAfter(m, j, failed, kept)
    BY <1>3, <1>6 DEF EnforcedOne
  <1>8. j = "Unbind"
    BY <1>4, <1>6, <1>7, RowAfterIs
  <1> QED
    BY <1>3, <1>5, <1>6, <1>8

\* A pass retires a modem only when its countdown really ran out: GracePasses
\* verdicts in a row and the grace period since the first, whatever failed,
\* was restarted or set back in between, or after the alarm that the countdown
\* could not be cleared; and it is recorded and announced in that pass
\* (enforce_registration, retro.rs).
THEOREM RetiredOnlyAfterGrace == RegistrySpec => RetiredAfterGrace
  <1>1. ASSUME RegistryInv, RegistryNext, NEW m \in Modems, Retires(m)
        PROVE  /\ alarmed[m] \/ (streak[m] + 1 >= GracePasses /\ stood[m] >= Grace)
               /\ m \in retirements' /\ "retro_unbound" \in alerts'
    <2>1. PICK r \in RowSet : r = registered[m] /\ Elapsed(r) >= Grace /\ r.passes + 1 >= GracePasses
      BY <1>1, RetiredByVerdict, JudgeIs DEF RegistryInv, RegistryTypeOK
    <2>2. /\ Grace \in Nat \ {0} /\ GracePasses \in Nat /\ r.since \in Int /\ r.passes \in Nat
          /\ streak[m] \in Nat /\ stood[m] \in Int
      BY <1>1, RegistryAssumption DEF RegistryInv, RegistryTypeOK, RowSet
    <2>3. r.since >= Grace /\ r.since # NoMark
      <3>1. PICK s \in Int : s = r.since
        BY <2>2
      <3>2. PICK z \in Int : z = 0
        OBVIOUS
      <3>3. Max({z, s}) = z \/ Max({z, s}) = s
        BY MaxOfTwo
      <3> QED
        BY <2>1, <2>2, <3>1, <3>2, <3>3 DEF Elapsed, NoMark
    <2>4. RowIsHonest(m)
      BY <1>1 DEF RegistryInv, CountdownHonest
    <2>5. alarmed[m] \/ (r.passes <= streak[m] /\ stood[m] >= r.since)
      BY <2>1, <2>3, <2>4 DEF RowIsHonest
    <2>6. alarmed[m] \/ (streak[m] + 1 >= GracePasses /\ stood[m] >= Grace)
      BY <2>1, <2>2, <2>3, <2>5
    <2> QED
      BY <1>1, <2>6, RetiredByVerdict
  <1> DEFINE Kept == \A m \in Modems :
          Retires(m) =>
              /\ alarmed[m] \/ (streak[m] + 1 >= GracePasses /\ stood[m] >= Grace)
              /\ m \in retirements' /\ "retro_unbound" \in alerts'
  <1>2. RegistryInv /\ [RegistryNext]_registryVars => RegistryInv'
    BY RegistryStep
  <1>3. RegistryInv /\ [RegistryNext]_registryVars => [Kept]_registryVars
    BY <1>1
  <1>4. RetiredAfterGrace <=> [][Kept]_registryVars
    BY DEF RetiredAfterGrace
  <1> HIDE DEF Kept
  <1> QED
    BY <1>2, <1>3, <1>4, RegistryInitially, PTL DEF RegistrySpec

\* A modem that every pushed matrix admits is not retired by the built-in one:
\* each race between a push and a pass passes at most one verdict, and the
\* next needs a restart that lost its matrix in between (MatrixAuthority of
\* retro.rs, handle_command).
THEOREM PushRaceNeverRetires == RegistrySpec => PushRaceRetiresNone
  <1>1. ASSUME RegistryInv, RegistryNext, NEW m \in Modems, Retires(m)
        PROVE  alarmed[m] \/ unpublished \/ PushedAgainst(m) \/ faults + 1 >= GracePasses
    <2>1. /\ registered[m].passes + 1 >= GracePasses /\ m \notin poll.matrix
      BY <1>1, RetiredByVerdict, JudgeIs
    <2>2. MayBeJudgedByBuiltin(m)
      BY <1>1, <2>1 DEF Retires, MayBeJudgedByBuiltin
    <2>3. registered[m].passes \in Nat /\ faults \in Nat /\ GracePasses \in Nat
          /\ RaceIsPaidFor(m)
      BY <1>1, RegistryAssumption DEF RegistryInv, RegistryTypeOK, RacesPaidFor, RowSet
    <2>4. unpublished \/ PushedAgainst(m) \/ registered[m].passes <= faults
      BY <2>2, <2>3 DEF RaceIsPaidFor
    <2> QED
      BY <2>1, <2>3, <2>4
  <1> DEFINE Kept == \A m \in Modems :
          Retires(m) => \/ alarmed[m] \/ unpublished \/ PushedAgainst(m)
                        \/ faults + 1 >= GracePasses
  <1>2. RegistryInv /\ [RegistryNext]_registryVars => RegistryInv'
    BY RegistryStep
  <1>3. RegistryInv /\ [RegistryNext]_registryVars => [Kept]_registryVars
    BY <1>1
  <1>4. PushRaceRetiresNone <=> [][Kept]_registryVars
    BY DEF PushRaceRetiresNone
  <1> HIDE DEF Kept
  <1> QED
    BY <1>2, <1>3, <1>4, RegistryInitially, PTL DEF RegistrySpec
=============================================================================
