---------------------------- MODULE SupportRules ----------------------------
(***************************************************************************)
(* What decides whether a module may be asked to do something.  Three      *)
(* facts meet at the moment of the request: the capability matrix in force *)
(* (edge-core matrix.rs, as a ledger), the inventory row the poll last     *)
(* wrote for the module (family, home network, card), and the plan the     *)
(* operator declared for that card (edge-store card_policies).  The        *)
(* resolution walks the hardware, the ledger, the network and the plan in  *)
(* that order and names the layer that refused.                            *)
(*                                                                         *)
(* The same commit also ships the routing rules of the verticals           *)
(* (edge-core sms.rs, verticals/): they decide over which bearer a message *)
(* is planned.                                                             *)
(***************************************************************************)
EXTENDS Naturals, FiniteSets, Sequences, SequencesExt

CONSTANTS
    Slot,         \* the modules this device drives
    Sim,           \* the cards that can be in them
    Document,       \* capability matrix documents the cloud may push
    Builtin,        \* the document compiled into the program
    Label,          \* what each module reports about itself: <<model, revision>>
    Home,           \* what each card says of its home: [mcc, mnc2, mnc3, ef_ad]
    Usb,            \* the USB identity each module really has
    Running,        \* the version of this build, as three numbers
    NoSim,         \* no readable ICCID
    MaxRuleOps      \* bound: pushes, hand edits, swaps and polls

\* The networks of MCC 460, the ones the code's table of carriers is about, have
\* two digits.
ASSUME NumberingAssumption == \A c \in Sim : Home[c].mcc = 460 => Home[c].ef_ad # 3

Operation == {"sms_mo", "sms_mt", "data", "voice"}
Bearer == {"cellular", "ims", "sgs"}

\* BearerSupport: a bearer it was measured over, a measured refusal, or a
\* note that somebody should find out.
BearerSupport == Bearer \cup {"unsupported", "probe"}
Capability == [Operation -> BearerSupport]
ProbeAll == [op \in Operation |-> "probe"]

VARIABLES
    matrix,         \* CapabilityMatrix in force: [rules, fallback]
    rows,           \* the card_policies table: card -> flags, or a hand edit
    pushed,         \* the flags the cloud last pushed for each card
    seated,         \* the card that really is in each module, or none
    stock,          \* local_modems: what the last poll wrote; ghosts: the card a
                    \* poll last learned of, and whether one has lost sight of it
    ruleOps

ruleVars == <<matrix, rows, pushed, seated, stock, ruleOps>>

-----------------------------------------------------------------------------
(* Recognising a module and its card's network.                            *)

\* ModemFamily::detect: the model string first, the revision second, and the
\* first that names a family decides.  NamedFamily is names_model: a prefix
\* not followed by a further digit, so an EC200U is not an EC20.
NamedFamily == [ EC20CE |-> "EC20", EC25CF |-> "EC25-CN", EG25GG |-> "EG25-G",
                 EC200UCN |-> "EC200U-CN", UFI103S |-> "UFI103S" ]

Detect(label) ==
    LET named == SelectSeq(label, LAMBDA s : s \in DOMAIN NamedFamily)
    IN  IF named = <<>> THEN label[1] ELSE NamedFamily[named[1]]

\* mnc_digits_or_fallback: the card says how many digits its MNC has; an EF_AD
\* that cannot be read, or says neither two nor three, is taken to say two.
MncDigitsOrFallback(adRead, efAd) == IF adRead /\ efAd \in {2, 3} THEN efAd ELSE 2

FromImsi(home, adRead) ==
    <<home.mcc, IF MncDigitsOrFallback(adRead, home.ef_ad) = 2 THEN home.mnc2 ELSE home.mnc3>>

\* Network::carrier_profile over the mainland table; everything else, an
\* unread home included, is the international profile.
CnCarrier == [ n \in {0, 2, 4, 7, 8, 15, 20} |-> "CN-Mobile" ] @@
             [ n \in {1, 6, 9} |-> "CN-Unicom" ] @@
             [ n \in {3, 5, 11} |-> "CN-Telecom" ]

CarrierProfile(network) ==
    IF network # <<>> /\ network[1] = 460 /\ network[2] \in DOMAIN CnCarrier
    THEN CnCarrier[network[2]] ELSE "Generic-International"

-----------------------------------------------------------------------------
(* The matrix document.                                                    *)

\* RawCapability::into_capability: a field the document leaves out takes the
\* inherited value.
IntoCapability(raw, inherited) ==
    [op \in Operation |-> IF raw[op] = "absent" THEN inherited[op] ELSE raw[op]]

Keys(document) == [i \in DOMAIN document.rule |-> <<document.rule[i].family, document.rule[i].carrier>>]

\* from_document: two rules for one pair, or one device listed twice, refuse
\* the document.
Distinct(seq) == \A i, j \in DOMAIN seq : seq[i] = seq[j] => i = j
Parses(document) ==
    /\ Distinct(Keys(document))
    /\ Distinct([i \in DOMAIN document.device |-> document.device[i].usb])

\* numeric_version and version_check: missing parts count as zero, and a
\* requirement that is not numeric is not met.
NumericVersion(parts) == [i \in 1..3 |-> IF i \in DOMAIN parts THEN parts[i] ELSE 0]
AtLeast(have, need) == \A i \in 1..3 : have[i] < need[i] => \E j \in 1..(i-1) : have[j] > need[j]
VersionCheck(min) ==
    CASE ~min.stated -> "not_required"
      [] min.stated /\ ~min.numeric -> "unreadable"
      [] OTHER -> IF AtLeast(NumericVersion(Running), NumericVersion(min.parts))
                  THEN "satisfied" ELSE "too_old"

\* install_matrix, once the digest and the version name agree.
Accepted(document) == Parses(document) /\ VersionCheck(document.min) \in {"not_required", "satisfied"}

FromDocument(document) ==
    LET fallback == IntoCapability(document.fallback, ProbeAll)
    IN  [ fallback |-> fallback, catalogue |-> document.catalogue, device |-> document.device,
          rules |-> [ k \in {Keys(document)[i] : i \in DOMAIN document.rule} |->
              IntoCapability(document.rule[CHOOSE i \in DOMAIN document.rule :
                                             Keys(document)[i] = k].raw, fallback) ] ]

\* CapabilityMatrix::query, with where the answer came from.
Query(m, family, carrier) ==
    IF <<family, carrier>> \in DOMAIN m.rules
    THEN [capability |-> m.rules[<<family, carrier>>], origin |-> "rule"]
    ELSE [capability |-> m.fallback, origin |-> "fallback"]

\* device_gate: a document without a device section says nothing.
DeviceGate(m, usb) ==
    LET entry == {i \in DOMAIN m.device : m.device[i].usb = usb}
    IN  CASE ~m.catalogue -> "not_stated"
          [] m.catalogue /\ entry = {} -> "absent"
          [] OTHER -> IF \E i \in entry : m.device[i].enabled THEN "enabled" ELSE "disabled"

\* Capability::has_measurement
HasMeasurement(capability) == \E op \in Operation : capability[op] # "probe"

\* StrategyRegistry::drives over the two shipped strategies.
Drives(usb) == usb \in {"2c7c:0125", "2c7c:0901"}

\* bind_gates: the USB identity and who drives it, the catalogue, then the
\* measurement of the pair.  An empty identity or home has not been read.
BindGates(m, usb, family, home) ==
    CASE usb = "" -> "unreadable_usb_identity"
      [] usb # "" /\ ~Drives(usb) -> "no_strategy"
      [] OTHER ->
            IF DeviceGate(m, usb) \notin {"not_stated", "enabled"} THEN "not_in_catalogue"
            ELSE IF home = <<>> THEN "not_identified_yet"
            ELSE IF ~HasMeasurement(Query(m, family, CarrierProfile(home)).capability)
                 THEN "never_measured" ELSE "none"

\* BindRefusal::kind: what counts as a verdict against a module.
Verdict == {"no_strategy", "not_in_catalogue", "never_measured"}

-----------------------------------------------------------------------------
(* The plan declared for a card.                                           *)

Flag == {"undeclared", "yes", "no"}
Flags == [Operation -> Flag]
Undeclared == [op \in Operation |-> "undeclared"]

\* operating_context: no ICCID is no declaration, a row that does not decode
\* is an unknown one, an absent row declares nothing.
SubscriptionOf(iccid) ==
    CASE iccid = NoSim -> [authority |-> "no_card", flags |-> Undeclared]
      [] iccid # NoSim /\ iccid \notin DOMAIN rows ->
            [authority |-> "declared", flags |-> Undeclared]
      [] OTHER -> IF rows[iccid].text
                  THEN [authority |-> "unreadable", flags |-> Undeclared]
                  ELSE [authority |-> "declared", flags |-> rows[iccid].flags]

-----------------------------------------------------------------------------
(* StrategyRegistry::resolve.                                              *)

\* ModemStrategy::ceiling of the two shipped strategies: the EC200U series has
\* neither a bearer this agent can raise nor a voice path.
Ceiling(family, op) == family = "EC200U-CN" /\ op \in {"data", "voice"}

\* CarrierStrategy::refuses: none of the four shipped networks refuses an
\* operation, and none moves it off the bearer it was measured on.
CarrierRefuses(carrier, op) == FALSE

Refuse(by) == [ok |-> FALSE, by |-> by]

\* The plan, last and only subtracting.
Entitled(subscription, op) ==
    CASE subscription.authority = "unreadable" -> Refuse("subscription_unreadable")
      [] subscription.authority # "unreadable" /\ subscription.flags[op] = "no" ->
            Refuse("subscription")
      [] OTHER -> [ok |-> TRUE, by |-> "none"]

Measured(m, family, carrier, subscription, op) ==
    LET support == m.rules[<<family, carrier>>][op]
    IN  CASE support = "unsupported" -> Refuse("carrier")
          [] support = "probe" -> Refuse("untested")
          [] OTHER -> IF CarrierRefuses(carrier, op) THEN Refuse("carrier")
                      ELSE Entitled(subscription, op)

\* The hardware before the ledger, the ledger before the network, the plan
\* last.
Resolve(m, family, carrier, subscription, op) ==
    IF Ceiling(family, op) THEN Refuse("modem")
    ELSE IF <<family, carrier>> \notin DOMAIN m.rules THEN Refuse("untested")
    ELSE Measured(m, family, carrier, subscription, op)

\* The agent's entry point: a module the inventory cannot describe is refused.
Gate(module, op) ==
    IF ~stock[module].known THEN Refuse("operating_context_unavailable")
    ELSE Resolve(matrix, stock[module].family, CarrierProfile(stock[module].home),
                 SubscriptionOf(stock[module].iccid), op)

\* The panel's entry point, RadioPort::refuse_unsupported: the same layers, past
\* which only a deliberate commissioning send goes.
PanelGate(module, op, commission) ==
    IF commission /\ op = "sms_mo" THEN [ok |-> TRUE, by |-> "none"] ELSE Gate(module, op)

-----------------------------------------------------------------------------
(* Steps.                                                                  *)

RulesInit ==
    /\ matrix = FromDocument(Builtin)
    /\ rows = << >>
    /\ pushed = [c \in Sim |-> Undeclared]
    /\ seated \in [Slot -> Sim \cup {NoSim}]
    /\ stock = [m \in Slot |-> [known |-> FALSE, family |-> "", home |-> <<>>, iccid |-> NoSim,
                                numbered |-> NoSim, last |-> NoSim, blind |-> FALSE]]
    /\ ruleOps = 0

Spend == ruleOps < MaxRuleOps /\ ruleOps' = ruleOps + 1

\* update_capability_matrix: a document that arrived damaged, does not parse or
\* needs a newer build leaves the old one.
UpdateMatrix(document, intact) ==
    /\ Spend
    /\ matrix' = IF intact /\ Accepted(document) THEN FromDocument(document) ELSE matrix
    /\ UNCHANGED <<rows, pushed, seated, stock>>

\* replace_card_policies: the whole set in one transaction; a set naming a card
\* twice violates the primary key and nothing of it is written.
ReplaceCardPolicies(cards, flags, twice) ==
    /\ Spend
    /\ IF twice
       THEN UNCHANGED <<rows, pushed>>
       ELSE /\ rows' = [c \in cards |-> [text |-> FALSE, flags |-> flags[c]]]
            /\ pushed' = [c \in Sim |-> IF c \in cards THEN flags[c] ELSE Undeclared]
    /\ UNCHANGED <<matrix, seated, stock>>

\* update_card_policies: every field stays three-valued on its way in.
UpdateCardPolicies(cards, f, twice) ==
    ReplaceCardPolicies(cards, [c \in cards |-> [Undeclared EXCEPT !["sms_mo"] = f, !["data"] = "yes"]], twice)

\* The on-box sqlite3: 'false' written into an integer column makes the row
\* undecodable (external).
HandEdit(card) ==
    /\ Spend
    /\ card \in DOMAIN rows
    /\ rows' = [rows EXCEPT ![card].text = TRUE]
    /\ UNCHANGED <<matrix, pushed, seated, stock>>

\* The card in a slot is exchanged or taken out, or an eUICC switches profile
\* (external).
SwapCard(module, card) ==
    /\ Spend
    /\ seated' = [seated EXCEPT ![module] = card]
    /\ UNCHANGED <<matrix, rows, pushed, stock>>

\* With a card nobody was asked about written like a slot found empty.
EffectiveIccidMutant(via, told, there, old) == IF told THEN there ELSE NoSim

\* upsert_local_modem_with, effective_iccid: what a poll was told is written.  When
\* it was told nothing, the QMI path, whose read failed, writes an empty slot all
\* the same (CardRead::Answered); the AT path, where neither +QCCID nor +CCID
\* was answered, keeps the stored card (CardRead::Unasked).
EffectiveIccid(via, told, there, old) ==
    CASE told -> there
      [] ~told /\ via = "qmi" -> NoSim
      [] OTHER -> old

\* A poll writes the inventory row: what was not read of the card is kept only
\* while the row's number is filed under the card the row now names.  Over QMI
\* the number is asked for afterwards and filed under the card whatever that
\* read as (fill_msisdn); over AT it is filed only under a card that was read.
Poll(module, via, readCard, readImsi, readAd, readNumber) ==
    LET old == stock[module]
        there == seated[module]
        told == readCard \/ (via = "qmi" /\ there = NoSim)
        card == EffectiveIccid(via, told, there, old.iccid)
        same == old.numbered = card
        filed == readNumber /\ (via = "qmi" \/ (told /\ there # NoSim))
    IN  /\ Spend
        /\ readImsi => there # NoSim
        /\ stock' = [stock EXCEPT ![module] =
               [ known |-> TRUE, family |-> Detect(Label[module]), iccid |-> card,
                 home |-> CASE readImsi -> FromImsi(Home[there], readAd)
                            [] ~readImsi /\ same -> old.home
                            [] OTHER -> <<>>,
                 numbered |-> CASE filed -> card
                                [] ~filed /\ same -> old.numbered
                                [] OTHER -> NoSim,
                 last |-> IF told THEN there ELSE old.last,
                 blind |-> ~told /\ (via = "qmi" \/ old.blind) ]]
        /\ UNCHANGED <<matrix, rows, pushed, seated>>

-----------------------------------------------------------------------------
(* Bearer plans of the verticals.                                          *)

NoBearer == "none"
To(primary, fallback) == [primary |-> primary, fallback |-> fallback]
Unavailable == To(NoBearer, NoBearer)
If(bearer, up) == IF bearer \in up THEN bearer ELSE NoBearer

\* probe_in_order: the first two available bearers of the preference.
Earliest(at) == CHOOSE i \in at : \A j \in at : i <= j
ProbeInOrder(preferred, up) ==
    LET avail == {i \in DOMAIN preferred : preferred[i] \in up}
        second == avail \ {Earliest(avail)}
    IN  CASE avail = {} -> Unavailable
          [] avail # {} /\ second = {} -> To(preferred[Earliest(avail)], NoBearer)
          [] OTHER -> To(preferred[Earliest(avail)], preferred[Earliest(second)])

\* OrderedSmsRouter::plan, which the lab vertical uses.
LabPlan(mo, up) ==
    CASE mo = "unsupported" -> Unavailable
      [] mo = "probe" -> ProbeInOrder(<<"sgs", "ims", "cellular">>, up)
      [] OTHER -> To(If(mo, up), NoBearer)

\* CnSmsRouter::plan: one bearer or none, never a second.
CnPlan(mo, up) ==
    CASE mo = "unsupported" -> Unavailable
      [] mo = "probe" -> To(IF "ims" \in up THEN "ims" ELSE "cellular", NoBearer)
      [] OTHER -> To(If(mo, up), NoBearer)

\* IntlSmsRouter::probe.
IntlProbe(up) ==
    CASE "cellular" \in up -> To("cellular", If("ims", up))
      [] "cellular" \notin up /\ "ims" \in up -> To("ims", "cellular")
      [] OTHER -> To("cellular", NoBearer)

\* IntlSmsRouter::plan: the authorised bearer first, the other registered one
\* as fallback; the probe order when the authorised one is down.
IntlPlan(mo, up) ==
    CASE mo = "unsupported" -> Unavailable
      [] mo \in Bearer /\ mo \in up ->
            To(mo, CASE mo = "cellular" -> If("ims", up)
                     [] mo = "ims" -> If("cellular", up)
                     [] OTHER -> NoBearer)
      [] OTHER -> IntlProbe(up)

\* VerticalRegistry::resolve over the shipped factories, with the
\* international one as the fallback.
PlanOf(vertical, mo, up) ==
    CASE vertical = "cn" -> CnPlan(mo, up)
      [] vertical = "lab" -> LabPlan(mo, up)
      [] OTHER -> IntlPlan(mo, up)

\* The plan for a message of this module over the bearers that are up.
PlanSend(module, vertical, up) ==
    PlanOf(vertical, Query(matrix, stock[module].family,
                           CarrierProfile(stock[module].home)).capability["sms_mo"], up)

-----------------------------------------------------------------------------
RulesNext ==
    \/ \E d \in Document, intact \in BOOLEAN : UpdateMatrix(d, intact)
    \/ \E cards \in SUBSET Sim, f \in {"undeclared", "no"}, twice \in BOOLEAN :
          UpdateCardPolicies(cards, f, twice)
    \/ \E c \in Sim : HandEdit(c)
    \/ \E m \in Slot, c \in Sim \cup {NoSim} : SwapCard(m, c)
    \/ \E m \in Slot, via \in {"qmi", "at"}, readCard, readImsi, readAd, readNumber \in BOOLEAN :
          Poll(m, via, readCard, readImsi, readAd, readNumber)

RulesSpec == RulesInit /\ [][RulesNext]_ruleVars

-----------------------------------------------------------------------------
(* Properties.                                                             *)

\* The matrix with the pair measured, and found able to do everything.
WithMeasurement(m, pair) ==
    [m EXCEPT !.rules = [k \in {pair} \cup DOMAIN @ |->
                           IF k = pair THEN [op \in Operation |-> "cellular"] ELSE @[k]]]

\* A refusal names the layer whose change would lift it, which is what the
\* operator is sent to change: the plan's own words for `subscription`, a
\* fresh push for an unreadable row, a measurement for `untested`, and no
\* measurement at all for the hardware (resolve, strategy.rs).
RefusalNamesFix ==
    \A m \in Slot, op \in Operation :
        LET inv == stock[m]
            carrier == CarrierProfile(inv.home)
            plain == [authority |-> "declared", flags |-> Undeclared]
            With(sub) == Resolve(matrix, inv.family, carrier, sub, op)
            Tested == {FromDocument(d) : d \in {d \in Document : Accepted(d)}}
            AnyTest(t) == Resolve(WithMeasurement(t, <<inv.family, carrier>>), inv.family, carrier, plain, op)
        IN  inv.known =>
            CASE Gate(m, op).by \in {"subscription", "subscription_unreadable"} -> With(plain).ok
              [] Gate(m, op).by = "untested" -> \A t \in Tested : AnyTest(t).ok
              [] Gate(m, op).by = "modem" -> \A t \in Tested : ~AnyTest(t).ok
              [] OTHER -> TRUE

\* An operation the operator's last push withholds from a card is refused on
\* the module a poll last saw that card in: through hand edits of the row,
\* through polls that fell back to AT and could not ask, and until a poll finds
\* another card or an empty slot (upsert_local_modem_with, operating_context,
\* resolve's last layer).  It is not so after a QMI poll whose ICCID read failed
\* with the card in place: that failure is written as an empty slot, which
\* withholds nothing, until the card is read again (probe_one).
WithheldStays ==
    \A m \in Slot, op \in Operation :
        LET card == stock[m].last IN
        (Gate(m, op).ok \/ PanelGate(m, op, FALSE).ok) /\ card # NoSim /\ ~stock[m].blind
            => pushed[card][op] # "no"

\* A planned message goes nowhere the matrix has ruled out, and a mainland
\* plan never has a second bearer that could carry the message twice
\* (veto_unsupported, CnSmsRouter).
PlanKeepsVeto ==
    \A m \in Slot, v \in {"cn", "intl", "lab", "other"}, up \in SUBSET Bearer :
        LET mo == Query(matrix, stock[m].family, CarrierProfile(stock[m].home)).capability["sms_mo"]
            p == PlanSend(m, v, up)
        IN  /\ mo = "unsupported" => p.primary = NoBearer
            /\ v = "cn" => p.fallback = NoBearer
            /\ p.fallback # NoBearer => p.primary \notin {p.fallback, NoBearer}

\* A verdict against adopting a module is never an artefact of something not
\* yet read: reading the rest, an EF_AD that was taken to say two digits
\* included, leaves a verdict, so that what retro-enforcement retires for is a
\* fact about the module and its card (bind_gates, BindRefusal::kind).
VerdictIsFinal ==
    \A m \in Slot, homeRead, adRead \in BOOLEAN :
        LET family == Detect(Label[m])
            Under(home) == BindGates(matrix, Usb[m], family, home)
            card == Home[seated[m]]
        IN  /\ seated[m] # NoSim
            /\ Under(IF homeRead THEN FromImsi(card, adRead) ELSE <<>>) \in Verdict
            => Under(FromImsi(card, TRUE)) \in Verdict

\* These together: an answer about an operation can be acted on.
RulesInv == RefusalNamesFix /\ WithheldStays /\ PlanKeepsVeto /\ VerdictIsFinal
=============================================================================
