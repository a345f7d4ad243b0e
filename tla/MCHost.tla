------------------------------- MODULE MCHost -------------------------------
(***************************************************************************)
(* What the host keeps of its modules besides their radio: the rules that  *)
(* say what a module and its card can do, the pass that reports the fleet, *)
(* the proxies, the authentication of a card and the AT console.  They     *)
(* share no state, so each is run by itself: `part' says which one a       *)
(* behaviour is of, and the others stay as they begin.                     *)
(***************************************************************************)
EXTENDS SupportRules, FleetPoll, ProxyManager, UsimAka, AtConsole

VARIABLE part

-----------------------------------------------------------------------------
(* Two modules, one of a family whose label is not its name; three cards, one *)
(* with a three-digit network and one whose EF_AD says nothing; a matrix for  *)
(* each way a document can be accepted or refused.                            *)

UsbValue == "m1" :> "2c7c:0125" @@ "m2" :> "2c7c:0901"
RunningValue == <<1, 2, 10>>
LabelValue == "m1" :> <<"QUECTEL", "EC20CE">> @@ "m2" :> <<"EC200U", "EC200UCN">>
HomeValue ==  "cn" :> [mcc |-> 460, mnc2 |-> 0, mnc3 |-> 9, ef_ad |-> 2]
           @@ "us" :> [mcc |-> 310, mnc2 |-> 26, mnc3 |-> 260, ef_ad |-> 3]
           @@ "odd" :> [mcc |-> 460, mnc2 |-> 1, mnc3 |-> 12, ef_ad |-> 0]

Raw(mo, data) == [op \in Operation |-> CASE op = "sms_mo" -> mo [] op = "data" -> data [] OTHER -> "absent"]
Rule(f, c, raw) == [family |-> f, carrier |-> c, raw |-> raw]
NoMin == [stated |-> FALSE, numeric |-> FALSE, parts |-> <<>>]
AtLeastBuild(parts) == [stated |-> TRUE, numeric |-> parts # <<>>, parts |-> parts]
Device(usb, on) == [usb |-> usb, enabled |-> on]
BuiltinValue == [min |-> NoMin, catalogue |-> FALSE, device |-> <<>>,
    fallback |-> Raw("absent", "absent"),
    rule |-> <<Rule("EC20", "CN-Mobile", Raw("cellular", "cellular")),
               Rule("EC200U-CN", "CN-Mobile", Raw("probe", "absent"))>>]
DocumentValue == {BuiltinValue,
    [min |-> AtLeastBuild(<<1, 2>>), catalogue |-> TRUE, device |-> <<Device("2c7c:0125", TRUE), Device("2c7c:0901", FALSE)>>,
     fallback |-> Raw("ims", "unsupported"),
     rule |-> <<Rule("EC20", "Generic-International", Raw("absent", "cellular")),
                Rule("EC200U-CN", "CN-Mobile", Raw("unsupported", "cellular"))>>],
    [min |-> AtLeastBuild(<<1, 3>>), catalogue |-> TRUE, device |-> <<Device("2c7c:0901", TRUE)>>,
     fallback |-> Raw("probe", "probe"), rule |-> <<>>],
    [min |-> AtLeastBuild(<<>>), catalogue |-> FALSE, device |-> <<>>,
     fallback |-> Raw("probe", "probe"),
     rule |-> <<Rule("EC20", "CN-Mobile", Raw("sgs", "absent")),
                Rule("EC20", "CN-Mobile", Raw("ims", "absent"))>>]}

-----------------------------------------------------------------------------
(* Two modules on two positions, of which one may need approval. *)
FaceValue == {("m1" :> "qmi" @@ "m2" :> "at"), ("m1" :> "qmi" @@ "m2" :> "manual")}

(* One proxy that is moved to another module, or to another port. *)
FirstSpec == [modem |-> "m1", port |-> 1, protocol |-> "socks5", auth |-> TRUE,
              upstream |-> "u", enabled |-> TRUE]
SpecChoiceValue == {FirstSpec, [FirstSpec EXCEPT !.modem = "m2", !.auth = FALSE],
                    [FirstSpec EXCEPT !.port = 2, !.protocol = "http"]}
UpstreamChoiceValue == {[enabled |-> TRUE, protocol |-> "socks5", auth |-> TRUE]}

-----------------------------------------------------------------------------
(* Lines that ask, that are asked about, and that hide the one behind the other. *)
Line(segs) == [at |-> TRUE, segs |-> segs]
SignalQuery == Segment("CSQ", "action", <<>>)
QuickValue == {Line(<<SignalQuery>>)}
ChangingValue == {"CFUN", "CMGD"}
BareChangingValue == {"D"}
AtLineValue == QuickValue \cup {Line(<<Segment("CFUN", "write", <<"0">>)>>),
                               Line(<<Segment("CMGD", "spaced", <<"1">>)>>),
                               Line(<<SignalQuery, Segment("CMGD", "write", <<"1">>)>>)}
UssdCodeValue == {[at |-> FALSE, segs |-> <<Segment("*100#", "bare", <<>>)>>]}

-----------------------------------------------------------------------------
hostVars == <<part, ruleVars, fleetVars, proxyVars, akaVars, consoleVars>>

HostInit ==
    /\ part \in {"rules", "fleet", "proxy", "aka", "console"}
    /\ RulesInit /\ FleetInit /\ ProxyInit /\ AkaInit /\ ConsoleInit
    /\ part # "rules" => seated = [m \in Slot |-> NoSim]
    /\ part # "fleet" => managed = {} /\ face["m2"] = "at"
    /\ part # "proxy" => wwan = [m \in ProxyModem |-> NoInterface]
    /\ part # "aka" => selected = "usim" /\ trait = CHOOSE t \in Traits : TRUE
    \* The modules of the console are interchangeable; of the fleet, the one with QMI
    \* has a card, the other has none until one is put in.
    /\ target = CHOOSE m \in ConsoleModem : TRUE
    /\ sim = ("m1" :> "c1" @@ "m2" :> NoCard)

HostNext ==
    /\ UNCHANGED part
    /\ \/ part = "rules" /\ RulesNext /\ UNCHANGED <<fleetVars, proxyVars, akaVars, consoleVars>>
       \/ part = "fleet" /\ FleetNext /\ UNCHANGED <<ruleVars, proxyVars, akaVars, consoleVars>>
       \/ part = "proxy" /\ ProxyNext /\ UNCHANGED <<ruleVars, fleetVars, akaVars, consoleVars>>
       \/ part = "aka" /\ AkaNext /\ UNCHANGED <<ruleVars, fleetVars, proxyVars, consoleVars>>
       \/ part = "console" /\ ConsoleNext /\ UNCHANGED <<ruleVars, fleetVars, proxyVars, akaVars>>

HostSpec == HostInit /\ [][HostNext]_hostVars

\* Answers hold.  Those of the rules can be acted on (RulesInv of SupportRules:
\* a refusal names what would lift it, what the operator withholds stays withheld
\* unless the card could not be read over QMI, a plan keeps the matrix's veto, a
\* verdict does not rest on something unread);
\* what is said of a card is what its USIM said (AkaInv of UsimAka).
AnswersHold == (part = "rules" => RulesInv) /\ AkaInv
=============================================================================
