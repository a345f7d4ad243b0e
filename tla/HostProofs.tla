----------------------------- MODULE HostProofs -----------------------------
(***************************************************************************)
(* What the rules, the poll, the proxies, the authentication of a card and *)
(* the console of one host promise, for any number of modules, cards,      *)
(* documents, positions, listeners and lines, and any length of keys.      *)
(***************************************************************************)
EXTENDS MCHost, WellFoundedInduction, FiniteSetTheorems, SequenceTheorems, TLAPS

(***************************************************************************)
(* Numbers.                                                                *)
(***************************************************************************)

\* A finite set of numbers has a least element.
LEMMA LeastExists ==
    ASSUME NEW S, S \subseteq Int, IsFiniteSet(S), S # {}
    PROVE  \E x \in S : \A y \in S : x <= y
<1> DEFINE Below(x) == {t \in S : t <= x}
           T == {Below(x) : x \in S}
<1>1. T \subseteq FiniteSubsetsOf(S) /\ T # {}
    <2>1. ASSUME NEW x \in S PROVE Below(x) \in FiniteSubsetsOf(S)
        BY FS_Subset DEF FiniteSubsetsOf
    <2> QED
        BY <2>1
<1>2. PICK U \in T : \A V \in T : ~(<<V, U>> \in StrictSubsetOrdering(S))
    <2> HIDE DEF T
    <2> QED
        BY <1>1, WFMin, FS_StrictSubsetOrderingWellFounded
<1>3. PICK x \in S : U = Below(x)
    OBVIOUS
<1>4. ASSUME NEW y \in S, ~(x <= y) PROVE FALSE
    <2>0. x <= x /\ \A z \in S : z <= y => z <= x
        BY <1>4
    <2>1. Below(y) \subseteq U /\ x \in U /\ x \notin Below(y)
        BY <1>3, <1>4, <2>0
    <2>2. <<Below(y), U>> \in StrictSubsetOrdering(S)
        BY <2>1, <1>3 DEF StrictSubsetOrdering
    <2> QED
        BY <2>2, <1>2
<1> QED
    BY <1>4

\* Every set of naturals has a least element.
LEMMA LeastNatural ==
    ASSUME NEW S \in SUBSET Nat, S # {}
    PROVE  \E x \in S : \A y \in S : x <= y
<1>1. PICK n \in S : TRUE
    OBVIOUS
<1> DEFINE T == {y \in S : y <= n}
<1>2. T \subseteq 0..n /\ T # {} /\ T \subseteq Int
    <2>1. n \in Nat /\ n <= n /\ \A y \in T : y \in Nat /\ y <= n
        OBVIOUS
    <2>2. n \in T
        BY <2>1
    <2> HIDE DEF T
    <2> QED
        BY <2>1, <2>2
<1>3. IsFiniteSet(T)
    <2>1. IsFiniteSet(0..n)
        BY FS_Interval, 0 \in Int, n \in Int
    <2> QED
        BY <1>2, <2>1, FS_Subset
<1>4. PICK x \in T : \A y \in T : x <= y
    <2> HIDE DEF T
    <2> QED
        BY <1>2, <1>3, LeastExists
<1>5. ASSUME NEW y \in S PROVE x <= y
    <2>1. CASE y \in T
        BY <1>4, <2>1
    <2>2. CASE ~(y <= n)
        BY <2>2
    <2> QED
        BY <2>1, <2>2
<1> QED
    BY <1>5

\* A set of numbers of 1..n has a greatest element.
LEMMA GreatestExists ==
    ASSUME NEW n \in Nat, NEW S \in SUBSET (1..n), S # {}
    PROVE  \E x \in S : \A y \in S : y <= x
<1> DEFINE T == {n - y : y \in S}
<1>1. T \subseteq 0..n /\ T # {}
    <2>1. \A y \in S : y \in Int /\ 1 <= y /\ y <= n
        OBVIOUS
    <2>2. \A y \in S : n - y \in 0..n
        BY <2>1
    <2> QED
        BY <2>2
<1>2. T \subseteq Int /\ IsFiniteSet(T)
    <2>1. T \subseteq 0..n
        BY <1>1
    <2>2. IsFiniteSet(0..n)
        BY FS_Interval, 0 \in Int, n \in Int
    <2> HIDE DEF T
    <2>3. IsFiniteSet(T)
        BY <2>1, <2>2, FS_Subset
    <2> QED
        BY <2>1, <2>3
<1>3. PICK t \in T : \A u \in T : t <= u
    <2> HIDE DEF T
    <2> QED
        BY <1>1, <1>2, LeastExists
<1>4. PICK x \in S : t = n - x
    OBVIOUS
<1>5. ASSUME NEW y \in S PROVE y <= x
    <2>1. n - y \in T
        OBVIOUS
    <2>2. n - x <= n - y
        BY <2>1, <1>3, <1>4
    <2> QED
        BY <2>2
<1> QED
    BY <1>5

(***************************************************************************)
(* The poll.                                                               *)
(***************************************************************************)
CardRead == Card \cup {NoCard}
RowShape == [known : BOOLEAN, iccid : CardRead, number : CardRead, numbered : CardRead]
SnapState == {"online", "unknown", "offline"}
SnapShape == [imei : Module, state : SnapState, iccid : CardRead, via : {"qmi", "at"},
              site : Site \cup {Nowhere}]
HandShape == {NoHand} \cup [imei : Module, site : Site, iccid : CardRead]
PassShape == [at : {"idle", "probe", "absent", "fill"}, now : Nat, qmi : SUBSET Site,
              ats : SUBSET Site, claimed : SUBSET Site, snaps : Seq(SnapShape),
              hand : HandShape, todo : SUBSET (Module \cup Nat), cache : [Module -> RowShape],
              kept : SUBSET Module, ever : SUBSET Module, heard : SUBSET Module,
              unread : SUBSET Module]
ReportShape == [sent : SUBSET (Module \X SnapState), listed : BOOLEAN, list : SUBSET Module,
                kept : SUBSET Module, ever : SUBSET Module, spoken : SUBSET Module,
                heard : SUBSET Module, unread : SUBSET Module]

\* The type of the poll's state.
FleetTypeOK ==
    /\ face \in [Module -> {"qmi", "at", "manual"}]
    /\ where \in [Module -> Site \cup {Nowhere}]
    /\ sim \in [Module -> CardRead]
    /\ managed \in SUBSET Module
    /\ row \in [Module -> RowShape]
    /\ serial \in [Site -> {"none", "found", "claimed"}]
    /\ approved \in SUBSET Site
    /\ seen \in [Module -> Site \cup {Nowhere}]
    /\ pass \in PassShape
    /\ report \in ReportShape
    /\ passes \in Nat /\ events \in Nat

\* What the throttle remembers has its shape, a code never announced holds
\* nothing back, and what was not announced is what is held back.
AlertInv ==
    /\ throttle \in [Code -> [said : BOOLEAN, at : Nat, held : Nat]]
    /\ unsaid \in [Code -> Nat]
    /\ \A c \in Code : ~throttle[c].said => throttle[c].held = 0
    /\ AlertsAccounted

Met == {m \in Module : seen[m] # Nowhere}

\* A pass under way has kept no more than what is adopted now, and names only
\* what was adopted at some time in it.
PassBounds ==
    pass.at # "idle" => /\ pass.kept \subseteq managed /\ managed \subseteq pass.ever
                        /\ Imeis(pass.snaps) \subseteq pass.ever

\* After the probes, a pass that found anything has named, or has still to name,
\* everything it kept and has met before, but for what the missing filter could
\* not look up.
NobodySkipped ==
    /\ pass.at = "absent" =>
         /\ pass.todo \subseteq pass.ever
         /\ pass.snaps = <<>> => pass.todo = {}
         /\ pass.snaps # <<>> =>
              (pass.kept \cap Met) \ pass.unread \subseteq Imeis(pass.snaps) \cup pass.todo
    /\ pass.at = "fill" /\ pass.snaps # <<>> =>
         (pass.kept \cap Met) \ pass.unread \subseteq Imeis(pass.snaps)

\* What stayed adopted and was heard is named by a snapshot from then on, is not
\* among the missing, and so is not called offline.
NotOffline == \A i \in DOMAIN pass.snaps :
    pass.snaps[i].state = "offline" => pass.snaps[i].imei \notin pass.heard \cap pass.kept
AnswersStand ==
    /\ pass.at = "probe" => /\ pass.heard \cap pass.kept \subseteq Imeis(pass.snaps)
                            /\ \A i \in DOMAIN pass.snaps : pass.snaps[i].state # "offline"
    /\ pass.at = "absent" => pass.todo \cap pass.heard \cap pass.kept = {}
    /\ pass.at # "idle" => NotOffline

\* The inductive invariant of the poll.
FleetInv == FleetTypeOK /\ AlertInv /\ PassBounds /\ NobodySkipped /\ AnswersStand /\ ReportIsTheFleet

\* raise_alert keeps the accounts of the throttle.
LEMMA RaiseKeepsAccounts ==
    ASSUME AlertInv, pass.now \in Nat, NEW code \in Code, RaiseAlert(code)
    PROVE  AlertInv'
<1> DEFINE t == throttle[code]
<1>1. t \in [said : BOOLEAN, at : Nat, held : Nat] /\ unsaid[code] = t.held
      /\ (~t.said => t.held = 0)
    BY DEF AlertInv, AlertsAccounted
<1>2. CASE t.said /\ pass.now < t.at + Window
    <2>1. /\ throttle' = [throttle EXCEPT ![code] = [t EXCEPT !.held = @ + 1]]
          /\ unsaid' = [unsaid EXCEPT ![code] = @ + 1]
        BY <1>2 DEF RaiseAlert, Consider
    <2>2. /\ throttle'[code] = [t EXCEPT !.held = @ + 1]
          /\ throttle'[code] \in [said : BOOLEAN, at : Nat, held : Nat]
          /\ throttle'[code].said /\ throttle'[code].held = t.held + 1
        BY <1>1, <1>2, <2>1 DEF AlertInv
    <2>3. /\ unsaid'[code] = t.held + 1
          /\ \A c \in Code : c # code => throttle'[c] = throttle[c] /\ unsaid'[c] = unsaid[c]
        BY <1>1, <2>1 DEF AlertInv
    <2>4. throttle' \in [Code -> [said : BOOLEAN, at : Nat, held : Nat]] /\ unsaid' \in [Code -> Nat]
        BY <1>1, <2>1, <2>2, <2>3 DEF AlertInv
    <2> QED
        BY <2>2, <2>3, <2>4 DEF AlertInv, AlertsAccounted
<1>3. CASE ~(t.said /\ pass.now < t.at + Window)
    <2>1. /\ throttle' = [throttle EXCEPT ![code] = [said |-> TRUE, at |-> pass.now, held |-> 0]]
          /\ unsaid' = [unsaid EXCEPT ![code] = (@ + 1) - (1 + IF t.said THEN t.held ELSE 0)]
        BY <1>3 DEF RaiseAlert, Consider
    <2>2. (unsaid[code] + 1) - (1 + IF t.said THEN t.held ELSE 0) = 0
        BY <1>1
    <2>3. unsaid' = [unsaid EXCEPT ![code] = 0]
        BY <2>1, <2>2
    <2> QED
        BY <2>1, <2>3 DEF AlertInv, AlertsAccounted
<1> QED
    BY <1>2, <1>3

\* The tables are read whole by UpsertLocalModem and SetModemMsisdn.
LEMMA RowsKeepShape ==
    ASSUME row \in [Module -> RowShape], NEW m \in Module, NEW c \in CardRead, NEW n \in CardRead,
           NEW b \in BOOLEAN,
           UpsertLocalModem(m, c, b, n) \/ SetModemMsisdn(m, n, c) \/ row' = row
    PROVE  row' \in [Module -> RowShape]
<1>1. NoCard \in CardRead /\ row[m] \in RowShape
    BY DEF CardRead
<1>2. CASE UpsertLocalModem(m, c, b, n)
    BY <1>1, <1>2 DEF UpsertLocalModem, RowShape
<1>3. CASE SetModemMsisdn(m, n, c)
    BY <1>1, <1>3 DEF SetModemMsisdn, RowShape
<1> QED
    BY <1>2, <1>3

\* The modules of a longer list of snapshots.
LEMMA ImeisAppend ==
    ASSUME NEW q \in Seq(SnapShape), NEW x \in SnapShape
    PROVE  /\ Append(q, x) \in Seq(SnapShape) /\ Append(q, x) # <<>>
           /\ Imeis(Append(q, x)) = Imeis(q) \cup {x.imei}
           /\ Imeis(q) \subseteq Module
<1>1. /\ DOMAIN Append(q, x) = DOMAIN q \cup {Len(q) + 1}
      /\ \A i \in DOMAIN q : Append(q, x)[i] = q[i]
      /\ Append(q, x)[Len(q) + 1] = x
    OBVIOUS
<1>2. Imeis(q) \subseteq Module
    <2>1. \A i \in DOMAIN q : q[i] \in SnapShape
        OBVIOUS
    <2> QED
        BY <2>1 DEF Imeis, SnapShape
<1> QED
    BY <1>1, <1>2 DEF Imeis

LEMMA IdleShape == Idle \in PassShape /\ Idle.at = "idle" /\ NoReport \in ReportShape
<1>1. NoRow \in RowShape
    BY DEF NoRow, RowShape, CardRead
<1>2. <<>> \in Seq(SnapShape)
    OBVIOUS
<1> QED
    BY <1>1, <1>2 DEF Idle, PassShape, HandShape, NoReport, ReportShape

\* The poll begins with its invariant.
LEMMA FleetInitInv == FleetInit => FleetInv
<1> SUFFICES ASSUME FleetInit PROVE FleetInv
    OBVIOUS
<1>1. where \in [Module -> Site]
    BY FleetAssumption DEF FleetInit
<1>2. sim \in [Module -> CardRead]
    BY DEF FleetInit, CardRead
<1>3. row \in [Module -> RowShape]
    BY DEF FleetInit, RowShape, NoRow, CardRead
<1>4. FleetTypeOK
    BY <1>1, <1>2, <1>3, IdleShape, FleetAssumption DEF FleetTypeOK, FleetInit
<1>5. AlertInv
    BY DEF FleetInit, AlertInv, AlertsAccounted, Fresh
<1>6. PassBounds /\ NobodySkipped /\ AnswersStand
    BY IdleShape DEF FleetInit, PassBounds, NobodySkipped, AnswersStand
<1>7. ReportIsTheFleet
    BY DEF FleetInit, ReportIsTheFleet, NoReport
<1> QED
    BY <1>4, <1>5, <1>6, <1>7 DEF FleetInv

\* Every step of the poll, and everything beside it, keeps the invariant.
LEMMA FleetStep == FleetInv /\ [FleetNext]_fleetVars => FleetInv'
<1> SUFFICES ASSUME FleetInv, [FleetNext]_fleetVars PROVE FleetInv'
    OBVIOUS
<1> USE DEF worldVars, registryVars, alertVars
<1>1. FleetTypeOK /\ AlertInv /\ PassBounds /\ NobodySkipped /\ AnswersStand /\ ReportIsTheFleet
    BY DEF FleetInv
<1>2. /\ pass \in PassShape /\ pass.now \in Nat /\ pass.snaps \in Seq(SnapShape)
      /\ pass.kept \subseteq Module /\ pass.ever \subseteq Module /\ managed \subseteq Module
      /\ pass.heard \subseteq Module /\ pass.unread \subseteq Module
      /\ pass.todo \subseteq Module \cup Nat
      /\ pass.hand # NoHand => pass.hand \in [imei : Module, site : Site, iccid : CardRead]
    BY <1>1 DEF FleetTypeOK, PassShape, HandShape
<1>3. NoCard \in CardRead /\ Nowhere \in Site \cup {Nowhere}
    BY DEF CardRead
<1>0. \A i \in DOMAIN pass.snaps : pass.snaps[i] \in SnapShape
    <2>1. ASSUME NEW q \in Seq(SnapShape) PROVE \A i \in DOMAIN q : q[i] \in SnapShape
        OBVIOUS
    <2> QED
        BY <1>2, <2>1
\* What a step that leaves the alerts and the report alone has to show.
<1>4. ASSUME FleetTypeOK', UNCHANGED alertVars, UNCHANGED report, PassBounds', NobodySkipped', AnswersStand'
      PROVE  FleetInv'
    <2>1. AlertInv' /\ ReportIsTheFleet'
        BY <1>1, <1>4 DEF AlertInv, AlertsAccounted, ReportIsTheFleet
    <2> QED
        BY <1>4, <2>1 DEF FleetInv
<1>5. ASSUME NEW now \in 0..MaxClock, NEW ok \in BOOLEAN, StartPass(now, ok) PROVE FleetInv'
    <2>1. now \in Nat
        BY FleetAssumption
    <2>2. pass' = [Idle EXCEPT !.at = "probe", !.now = now,
                                !.qmi = {s \in Site : Plugged(s, {"qmi"})},
                                !.ats = AtPathsToProbe(ApprovedManual(ok)),
                                !.kept = managed, !.ever = managed]
        BY <1>5 DEF StartPass
    <2>3. ApprovedManual(ok) \subseteq Site /\ AtPathsToProbe(ApprovedManual(ok)) \subseteq Site
        BY <1>1 DEF ApprovedManual, AtPathsToProbe, FleetTypeOK
    <2>4. pass' \in PassShape /\ pass'.at = "probe" /\ pass'.snaps = <<>>
          /\ pass'.kept = managed /\ pass'.ever = managed /\ pass'.heard = {}
        <3>1. Idle.snaps = <<>> /\ Idle.heard = {}
            BY DEF Idle
        <3> QED
            BY <1>2, <2>1, <2>2, <2>3, <3>1, IdleShape DEF PassShape
    <2>5. serial' \in [Site -> {"none", "found", "claimed"}]
        BY <1>1, <1>5 DEF StartPass, RecordManualSerial, FleetTypeOK
    <2>6. FleetTypeOK'
        BY <1>1, <1>5, <2>4, <2>5, IdleShape DEF StartPass, FleetTypeOK
    <2>7. PassBounds' /\ NobodySkipped' /\ AnswersStand'
        BY <1>5, <2>4 DEF StartPass, PassBounds, NobodySkipped, AnswersStand, NotOffline, Imeis
    <2>8. AlertInv' /\ ReportIsTheFleet'
        BY <1>1, <1>5 DEF StartPass, AlertInv, AlertsAccounted, ReportIsTheFleet, NoReport
    <2> QED
        BY <2>6, <2>7, <2>8 DEF FleetInv
<1>6. ASSUME NEW s \in Site, NEW m \in Module, NEW a \in BOOLEAN, ReadModule(s, m, a) PROVE FleetInv'
    <2>1. pass' = [pass EXCEPT !.hand = [imei |-> m, site |-> s,
                                         iccid |-> IF a THEN sim[m] ELSE NoCard]]
        BY <1>6 DEF ReadModule
    <2>2. [imei |-> m, site |-> s, iccid |-> IF a THEN sim[m] ELSE NoCard] \in HandShape
        BY <1>1, <1>3 DEF HandShape, FleetTypeOK
    <2>3. pass' \in PassShape
        BY <1>2, <2>1, <2>2 DEF PassShape
    <2>4. /\ pass'.at = pass.at /\ pass'.snaps = pass.snaps /\ pass'.kept = pass.kept
          /\ pass'.ever = pass.ever /\ pass'.todo = pass.todo
          /\ pass'.heard = pass.heard /\ pass'.unread = pass.unread
        BY <1>2, <2>1 DEF PassShape
    <2>5. FleetTypeOK'
        BY <1>1, <1>6, <2>3 DEF ReadModule, FleetTypeOK
    <2>6. PassBounds' /\ NobodySkipped' /\ AnswersStand'
        BY <1>1, <1>6, <2>4 DEF ReadModule, PassBounds, NobodySkipped, AnswersStand, NotOffline, Met
    <2> QED
        BY <1>4, <1>6, <2>5, <2>6 DEF ReadModule
\* What a step that raises an alert has to show.
<1>7. ASSUME NEW code \in Code, RaiseAlert(code), FleetTypeOK', UNCHANGED report,
             PassBounds', NobodySkipped', AnswersStand'
      PROVE  FleetInv'
    <2>1. AlertInv'
        BY <1>1, <1>2, <1>7, RaiseKeepsAccounts
    <2>2. ReportIsTheFleet'
        BY <1>1, <1>7 DEF ReportIsTheFleet
    <2> QED
        BY <1>7, <2>1, <2>2 DEF FleetInv
<1>8. "qmi_poll_failed" \in Code /\ "modem_absent" \in Code
    BY DEF Code
<1>9. ASSUME NEW s \in Site, QmiFails(s) PROVE FleetInv'
    <2>1. pass' = [pass EXCEPT !.qmi = @ \ {s}]
        BY <1>9 DEF QmiFails
    <2>2. /\ pass' \in PassShape
          /\ pass'.at = pass.at /\ pass'.snaps = pass.snaps /\ pass'.kept = pass.kept
          /\ pass'.ever = pass.ever /\ pass'.todo = pass.todo
          /\ pass'.heard = pass.heard /\ pass'.unread = pass.unread
        BY <1>2, <2>1 DEF PassShape
    <2>3. FleetTypeOK'
        BY <1>1, <1>9, <2>2 DEF QmiFails, FleetTypeOK
    <2>4. PassBounds' /\ NobodySkipped' /\ AnswersStand'
        BY <1>1, <1>9, <2>2 DEF QmiFails, PassBounds, NobodySkipped, AnswersStand, NotOffline, Met
    <2> QED
        BY <1>7, <1>8, <1>9, <2>3, <2>4 DEF QmiFails
\* What a step that takes the pass to pass', probing, has to show.
<1>10. ASSUME pass.at = "probe", pass' \in PassShape, pass'.at = "probe",
              pass'.kept = pass.kept, pass'.ever = pass.ever,
              \/ pass'.snaps = pass.snaps
              \/ \E x \in SnapShape : /\ x.imei \in managed /\ x.state # "offline"
                                      /\ pass'.snaps = Append(pass.snaps, x),
              pass'.heard \cap managed \subseteq pass.heard \cup Imeis(pass'.snaps),
              UNCHANGED managed
       PROVE  PassBounds' /\ NobodySkipped' /\ AnswersStand'
    <2>1. /\ pass.kept \subseteq managed /\ managed \subseteq pass.ever /\ Imeis(pass.snaps) \subseteq pass.ever
          /\ pass.heard \cap pass.kept \subseteq Imeis(pass.snaps)
          /\ \A i \in DOMAIN pass.snaps : pass.snaps[i].state # "offline"
        BY <1>1, <1>10 DEF PassBounds, AnswersStand
    <2>2. /\ Imeis(pass'.snaps) \subseteq pass.ever /\ Imeis(pass.snaps) \subseteq Imeis(pass'.snaps)
          /\ \A i \in DOMAIN pass'.snaps : pass'.snaps[i].state # "offline"
        <3>1. CASE pass'.snaps = pass.snaps
            BY <2>1, <3>1
        <3>2. CASE \E x \in SnapShape : /\ x.imei \in managed /\ x.state # "offline"
                                        /\ pass'.snaps = Append(pass.snaps, x)
            <4>1. PICK x \in SnapShape : /\ x.imei \in managed /\ x.state # "offline"
                                         /\ pass'.snaps = Append(pass.snaps, x)
                BY <3>2
            <4>2. Imeis(Append(pass.snaps, x)) = Imeis(pass.snaps) \cup {x.imei}
                BY <1>2, ImeisAppend
            <4>3. \A i \in DOMAIN Append(pass.snaps, x) :
                     Append(pass.snaps, x)[i] = x \/ (i \in DOMAIN pass.snaps /\ Append(pass.snaps, x)[i] = pass.snaps[i])
                <5>1. ASSUME NEW q \in Seq(SnapShape)
                      PROVE  \A i \in DOMAIN Append(q, x) :
                                Append(q, x)[i] = x \/ (i \in DOMAIN q /\ Append(q, x)[i] = q[i])
                    OBVIOUS
                <5> QED
                    BY <1>2, <5>1
            <4>4. \A i \in DOMAIN Append(pass.snaps, x) : Append(pass.snaps, x)[i].state # "offline"
                BY <2>1, <4>1, <4>3
            <4> QED
                BY <4>1, <4>2, <4>4, <2>1
        <3> QED
            BY <1>10, <3>1, <3>2
    <2>3. PassBounds'
        BY <1>10, <2>1, <2>2 DEF PassBounds
    <2>4. NobodySkipped'
        BY <1>10 DEF NobodySkipped
    <2>5. pass'.heard \cap pass'.kept \subseteq Imeis(pass'.snaps)
        BY <1>10, <2>1, <2>2
    <2>6. AnswersStand'
        BY <1>10, <2>2, <2>5 DEF AnswersStand, NotOffline
    <2> QED
        BY <2>3, <2>4, <2>6
<1>11. ASSUME NEW rowRead \in BOOLEAN, NEW listRead \in BOOLEAN, RecordModule(rowRead, listRead)
       PROVE  FleetInv'
    <2> DEFINE h == pass.hand
               mine == IsManaged(h.imei, listRead)
               x == Snapshot(h.imei, "online", h.iccid, "qmi", h.site)
               told == IF listRead THEN pass.heard \cup {h.imei} ELSE pass.heard
    <2>1. /\ pass.at = "probe" /\ h \in [imei : Module, site : Site, iccid : CardRead]
          /\ UpsertLocalModem(h.imei, h.iccid, TRUE, NoCard) \/ row' = row
          /\ pass' = [pass EXCEPT !.hand = NoHand, !.qmi = @ \ {h.site}, !.claimed = @ \cup {h.site},
                         !.heard = told, !.snaps = IF mine THEN Append(@, x) ELSE @]
        BY <1>2, <1>11 DEF RecordModule
    <2>2. row' \in [Module -> RowShape]
        BY <1>1, <1>3, <2>1, RowsKeepShape DEF FleetTypeOK
    <2>3. x \in SnapShape /\ x.imei = h.imei /\ x.state # "offline"
        BY <2>1 DEF Snapshot, SnapShape, SnapState
    <2>4. /\ (IF mine THEN Append(pass.snaps, x) ELSE pass.snaps) \in Seq(SnapShape)
          /\ mine => Imeis(Append(pass.snaps, x)) = Imeis(pass.snaps) \cup {h.imei}
        BY <1>2, <2>3, ImeisAppend
    <2>9. /\ told \subseteq Module
          /\ told \cap managed \subseteq pass.heard \cup (IF mine THEN {h.imei} ELSE {})
          /\ mine => h.imei \in managed
        BY <1>2, <2>1 DEF IsManaged
    <2> HIDE DEF x, told, mine
    <2>5. pass' \in PassShape
        BY <1>2, <2>1, <2>4, <2>9 DEF PassShape, HandShape
    <2>6. /\ pass'.at = "probe" /\ pass'.kept = pass.kept /\ pass'.ever = pass.ever
          /\ pass'.snaps = IF mine THEN Append(pass.snaps, x) ELSE pass.snaps
          /\ pass'.heard = told
        BY <1>2, <2>1 DEF PassShape
    <2>10. pass'.heard \cap managed \subseteq pass.heard \cup Imeis(pass'.snaps)
        BY <2>4, <2>6, <2>9
    <2>11. events' \in Nat
        BY <1>1, <1>11 DEF RecordModule, StoreFails, Unread, FleetTypeOK
    <2>7. FleetTypeOK'
        BY <1>1, <1>11, <2>2, <2>5, <2>11 DEF RecordModule, FleetTypeOK
    <2>12. UNCHANGED managed
        BY <1>11 DEF RecordModule
    <2>13. \/ pass'.snaps = pass.snaps
           \/ \E y \in SnapShape : /\ y.imei \in managed /\ y.state # "offline"
                                   /\ pass'.snaps = Append(pass.snaps, y)
        BY <2>3, <2>6, <2>9
    <2>8. PassBounds' /\ NobodySkipped' /\ AnswersStand'
        BY <1>10, <2>1, <2>5, <2>6, <2>10, <2>12, <2>13
    <2> QED
        BY <1>4, <1>11, <2>7, <2>8 DEF RecordModule
<1>12. ASSUME NEW b \in BOOLEAN, RecordFails(b) PROVE FleetInv'
    <2> DEFINE h == pass.hand
    <2>1. /\ pass.at = "probe" /\ h \in [imei : Module, site : Site, iccid : CardRead]
          /\ UpsertLocalModem(h.imei, h.iccid, TRUE, NoCard) \/ row' = row
          /\ pass' = [pass EXCEPT !.hand = NoHand, !.qmi = @ \ {h.site}]
        BY <1>2, <1>12 DEF RecordFails
    <2>2. row' \in [Module -> RowShape]
        BY <1>1, <1>3, <2>1, RowsKeepShape DEF FleetTypeOK
    <2>3. pass' \in PassShape
        BY <1>2, <2>1 DEF PassShape, HandShape
    <2>4. /\ pass'.at = "probe" /\ pass'.kept = pass.kept /\ pass'.ever = pass.ever
          /\ pass'.snaps = pass.snaps /\ pass'.heard = pass.heard
        BY <1>2, <2>1 DEF PassShape
    <2>5. FleetTypeOK'
        BY <1>1, <1>12, <2>2, <2>3 DEF RecordFails, FleetTypeOK
    <2>6. PassBounds' /\ NobodySkipped' /\ AnswersStand'
        BY <1>10, <1>12, <2>1, <2>3, <2>4 DEF RecordFails
    <2> QED
        BY <1>7, <1>8, <1>12, <2>5, <2>6 DEF RecordFails
<1>13. ASSUME NEW s \in Site, SkipClaimed(s) PROVE FleetInv'
    <2>1. pass.at = "probe" /\ pass' = [pass EXCEPT !.ats = @ \ {s}]
        BY <1>13 DEF SkipClaimed, AtTurn, Probing
    <2>2. /\ pass' \in PassShape /\ pass'.at = "probe" /\ pass'.kept = pass.kept
          /\ pass'.ever = pass.ever /\ pass'.snaps = pass.snaps /\ pass'.heard = pass.heard
        BY <1>2, <2>1 DEF PassShape
    <2>3. FleetTypeOK'
        BY <1>1, <1>13, <2>2 DEF SkipClaimed, FleetTypeOK
    <2>4. PassBounds' /\ NobodySkipped' /\ AnswersStand'
        BY <1>10, <1>13, <2>1, <2>2 DEF SkipClaimed
    <2> QED
        BY <1>4, <1>13, <2>3, <2>4 DEF SkipClaimed
<1>14. ASSUME NEW s \in Site, NEW m \in Module, NEW a \in BOOLEAN, NEW b \in BOOLEAN,
              NEW c \in BOOLEAN, NEW rowRead \in BOOLEAN, NEW listRead \in BOOLEAN,
              ProbeAtOnly(s, m, a, b, c, rowRead, listRead)
       PROVE  FleetInv'
    <2> DEFINE iccid == IF a THEN sim[m] ELSE NoCard
               number == IF b THEN sim[m] ELSE NoCard
               mine == IsManaged(m, listRead)
               x == Snapshot(m, "online", iccid, "at", s)
               told == IF listRead THEN pass.heard \cup {m} ELSE pass.heard
    <2>1. iccid \in CardRead /\ number \in CardRead
        BY <1>1, <1>3 DEF FleetTypeOK
    <2>2. UpsertLocalModem(m, iccid, a, number) \/ row' = row
        BY <1>14 DEF ProbeAtOnly
    <2>3. x \in SnapShape /\ x.imei = m /\ x.state # "offline"
        BY <2>1 DEF Snapshot, SnapShape, SnapState
    <2> HIDE DEF iccid, number
    <2>4. row' \in [Module -> RowShape]
        BY <1>1, <2>1, <2>2, RowsKeepShape DEF FleetTypeOK
    <2>7. events' \in Nat /\ UNCHANGED managed
        BY <1>1, <1>14 DEF ProbeAtOnly, StoreFails, Unread, FleetTypeOK
    <2>5. CASE ~c
        <3>1. pass' = Idle
            BY <1>14, <2>5 DEF ProbeAtOnly
        <3>2. FleetTypeOK'
            BY <1>1, <1>14, <2>4, <2>7, <3>1, IdleShape DEF ProbeAtOnly, FleetTypeOK
        <3>3. PassBounds' /\ NobodySkipped' /\ AnswersStand'
            BY <3>1, IdleShape DEF PassBounds, NobodySkipped, AnswersStand
        <3> QED
            BY <1>4, <1>14, <3>2, <3>3 DEF ProbeAtOnly
    <2>6. CASE c
        <3>1. /\ pass.at = "probe"
              /\ pass' = [pass EXCEPT !.ats = @ \ {s}, !.claimed = @ \cup {s},
                             !.heard = told, !.snaps = IF mine THEN Append(@, x) ELSE @]
            BY <1>14, <2>6 DEF ProbeAtOnly, AtTurn, Probing, iccid
        <3>2. /\ (IF mine THEN Append(pass.snaps, x) ELSE pass.snaps) \in Seq(SnapShape)
              /\ mine => Imeis(Append(pass.snaps, x)) = Imeis(pass.snaps) \cup {m}
            BY <1>2, <2>3, ImeisAppend
        <3>6. /\ told \subseteq Module
              /\ told \cap managed \subseteq pass.heard \cup (IF mine THEN {m} ELSE {})
              /\ mine => m \in managed
            BY <1>2 DEF IsManaged
        <3> HIDE DEF x, told, mine
        <3>3. /\ pass' \in PassShape /\ pass'.at = "probe"
              /\ pass'.kept = pass.kept /\ pass'.ever = pass.ever /\ pass'.heard = told
              /\ pass'.snaps = IF mine THEN Append(pass.snaps, x) ELSE pass.snaps
            BY <1>2, <3>1, <3>2, <3>6 DEF PassShape
        <3>4. FleetTypeOK'
            BY <1>1, <1>14, <2>4, <2>7, <3>3 DEF ProbeAtOnly, FleetTypeOK
        <3>7. pass'.heard \cap managed \subseteq pass.heard \cup Imeis(pass'.snaps)
            BY <3>2, <3>3, <3>6
        <3>8. \/ pass'.snaps = pass.snaps
              \/ \E y \in SnapShape : /\ y.imei \in managed /\ y.state # "offline"
                                      /\ pass'.snaps = Append(pass.snaps, y)
            BY <2>3, <3>3, <3>6
        <3>5. PassBounds' /\ NobodySkipped' /\ AnswersStand'
            BY <1>10, <2>7, <3>1, <3>3, <3>7, <3>8
        <3> QED
            BY <1>4, <1>14, <3>4, <3>5 DEF ProbeAtOnly
    <2> QED
        BY <2>5, <2>6
<1>15. ASSUME NEW s \in Site, NEW read \in BOOLEAN, SilentPort(s, read) PROVE FleetInv'
    <2> DEFINE x(m) == Snapshot(m, "unknown", NoCard, "at", s)
    <2>1. \A m \in Module : x(m) \in SnapShape /\ x(m).imei = m /\ x(m).state # "offline"
        BY <1>3 DEF Snapshot, SnapShape, SnapState
    <2>2. /\ pass.at = "probe"
          /\ \/ pass' = [pass EXCEPT !.ats = @ \ {s}]
             \/ \E m \in Module : pass' = [pass EXCEPT !.ats = @ \ {s}, !.claimed = @ \cup {s},
                       !.snaps = IF IsManaged(m, read) THEN Append(@, x(m)) ELSE @]
        BY <1>15 DEF SilentPort, AtTurn, Probing
    <2> HIDE DEF x
    <2>3. /\ pass' \in PassShape /\ pass'.at = "probe"
          /\ pass'.kept = pass.kept /\ pass'.ever = pass.ever /\ pass'.heard = pass.heard
          /\ \/ pass'.snaps = pass.snaps
             \/ \E y \in SnapShape : /\ y.imei \in managed /\ y.state # "offline"
                                     /\ pass'.snaps = Append(pass.snaps, y)
        <3>1. CASE pass' = [pass EXCEPT !.ats = @ \ {s}]
            BY <1>2, <2>2, <3>1 DEF PassShape
        <3>2. ASSUME NEW m \in Module,
                     pass' = [pass EXCEPT !.ats = @ \ {s}, !.claimed = @ \cup {s},
                                 !.snaps = IF IsManaged(m, read) THEN Append(@, x(m)) ELSE @]
              PROVE  /\ pass' \in PassShape /\ pass'.at = "probe"
                     /\ pass'.kept = pass.kept /\ pass'.ever = pass.ever /\ pass'.heard = pass.heard
                     /\ \/ pass'.snaps = pass.snaps
                        \/ \E y \in SnapShape : /\ y.imei \in managed /\ y.state # "offline"
                                                /\ pass'.snaps = Append(pass.snaps, y)
            <4>1. (IF IsManaged(m, read) THEN Append(pass.snaps, x(m)) ELSE pass.snaps) \in Seq(SnapShape)
                BY <1>2, <2>1
            <4>2. /\ pass' \in PassShape /\ pass'.at = "probe"
                  /\ pass'.kept = pass.kept /\ pass'.ever = pass.ever /\ pass'.heard = pass.heard
                  /\ pass'.snaps = IF IsManaged(m, read) THEN Append(pass.snaps, x(m)) ELSE pass.snaps
                BY <1>2, <2>2, <3>2, <4>1 DEF PassShape
            <4>3. IsManaged(m, read) => m \in managed
                BY DEF IsManaged
            <4> QED
                BY <2>1, <4>2, <4>3
        <3> QED
            BY <2>2, <3>1, <3>2
    <2>6. events' \in Nat /\ UNCHANGED managed
        <3>1. StoreFails(Unread(read)) /\ UNCHANGED managed /\ events \in Nat
            BY <1>1, <1>15 DEF SilentPort, FleetTypeOK
        <3> QED
            BY <3>1 DEF StoreFails, Unread
    <2>4. FleetTypeOK'
        BY <1>1, <1>15, <2>3, <2>6 DEF SilentPort, FleetTypeOK
    <2>5. PassBounds' /\ NobodySkipped' /\ AnswersStand'
        <3>1. pass'.heard \cap managed \subseteq pass.heard \cup Imeis(pass'.snaps)
            BY <2>3
        <3> QED
            BY <1>10, <2>2, <2>3, <2>6, <3>1
    <2> QED
        BY <1>4, <1>15, <2>4, <2>5 DEF SilentPort
<1>16. ASSUME NEW unread \in SUBSET Module, EndProbes(unread) PROVE FleetInv'
    <2>1. /\ pass.at = "probe"
          /\ pass' = [pass EXCEPT !.at = "absent", !.todo = Missing(unread), !.unread = unread]
        BY <1>16 DEF EndProbes, Probing
    <2>2. /\ pass' \in PassShape /\ pass'.at = "absent" /\ pass'.todo = Missing(unread)
          /\ pass'.unread = unread /\ pass'.heard = pass.heard
          /\ pass'.kept = pass.kept /\ pass'.ever = pass.ever /\ pass'.snaps = pass.snaps
        BY <1>2, <2>1 DEF PassShape, Missing
    <2>7. events' \in Nat
        BY <1>1, <1>16 DEF EndProbes, StoreFails, Unread, FleetTypeOK
    <2>3. FleetTypeOK'
        BY <1>1, <1>16, <2>2, <2>7 DEF EndProbes, FleetTypeOK
    <2>4. /\ pass.kept \subseteq managed /\ managed \subseteq pass.ever /\ Imeis(pass.snaps) \subseteq pass.ever
          /\ pass.heard \cap pass.kept \subseteq Imeis(pass.snaps)
          /\ \A i \in DOMAIN pass.snaps : pass.snaps[i].state # "offline"
        BY <1>1, <2>1 DEF PassBounds, AnswersStand
    <2>5. PassBounds'
        BY <1>16, <2>2, <2>4 DEF EndProbes, PassBounds
    <2>8. /\ Missing(unread) \subseteq managed /\ Missing(unread) \cap Imeis(pass.snaps) = {}
          /\ pass.snaps = <<>> => Missing(unread) = {}
          /\ pass.snaps # <<>> =>
               (managed \cap Met) \ unread \subseteq Imeis(pass.snaps) \cup Missing(unread)
        BY DEF Missing, Met, IsManaged
    <2>6. NobodySkipped'
        <3>1. Met' = Met
            BY <1>16 DEF EndProbes, Met
        <3> QED
            BY <2>2, <2>4, <2>8, <3>1 DEF NobodySkipped
    <2>9. AnswersStand'
        BY <2>2, <2>4, <2>8 DEF AnswersStand, NotOffline
    <2> QED
        BY <1>4, <1>16, <2>3, <2>5, <2>6, <2>9 DEF EndProbes
<1>17. ASSUME NEW m \in Module, Absent(m) PROVE FleetInv'
    <2> DEFINE x == Snapshot(m, "offline", NoCard, "at", seen[m])
    <2>1. x \in SnapShape /\ x.imei = m
        BY <1>1, <1>3 DEF Snapshot, SnapShape, SnapState, FleetTypeOK
    <2>2. /\ pass.at = "absent" /\ m \in pass.todo
          /\ pass' = [pass EXCEPT !.todo = @ \ {m}, !.snaps = Append(@, x)]
        BY <1>17 DEF Absent
    <2> HIDE DEF x
    <2>3. /\ Append(pass.snaps, x) \in Seq(SnapShape) /\ Append(pass.snaps, x) # <<>>
          /\ Imeis(Append(pass.snaps, x)) = Imeis(pass.snaps) \cup {m}
        BY <1>2, <2>1, ImeisAppend
    <2>4. /\ pass' \in PassShape /\ pass'.at = "absent" /\ pass'.todo = pass.todo \ {m}
          /\ pass'.kept = pass.kept /\ pass'.ever = pass.ever
          /\ pass'.heard = pass.heard /\ pass'.unread = pass.unread
          /\ pass'.snaps = Append(pass.snaps, x)
        BY <1>2, <2>2, <2>3 DEF PassShape
    <2>5. FleetTypeOK'
        BY <1>1, <1>17, <2>4 DEF Absent, FleetTypeOK
    <2>6. /\ pass.kept \subseteq managed /\ managed \subseteq pass.ever
          /\ Imeis(pass.snaps) \subseteq pass.ever /\ pass.todo \subseteq pass.ever
          /\ pass.todo \cap pass.heard \cap pass.kept = {} /\ NotOffline
        BY <1>1, <2>2 DEF PassBounds, NobodySkipped, AnswersStand
    <2>7. PassBounds'
        BY <1>17, <2>2, <2>3, <2>4, <2>6 DEF Absent, PassBounds
    <2>8. (pass.kept \cap Met) \ pass.unread \subseteq Imeis(pass.snaps) \cup pass.todo
        BY <1>1, <2>2 DEF NobodySkipped
    <2>9. NobodySkipped'
        BY <1>17, <2>3, <2>4, <2>6, <2>8 DEF Absent, NobodySkipped, Met
    <2>10. \A i \in DOMAIN Append(pass.snaps, x) :
             \/ Append(pass.snaps, x)[i] = x
             \/ i \in DOMAIN pass.snaps /\ Append(pass.snaps, x)[i] = pass.snaps[i]
        <3>1. ASSUME NEW q \in Seq(SnapShape)
              PROVE  \A i \in DOMAIN Append(q, x) :
                        Append(q, x)[i] = x \/ (i \in DOMAIN q /\ Append(q, x)[i] = q[i])
            OBVIOUS
        <3> QED
            BY <1>2, <3>1
    <2>11. NotOffline'
        BY <2>1, <2>2, <2>4, <2>6, <2>10 DEF NotOffline
    <2>12. AnswersStand'
        BY <2>4, <2>6, <2>11 DEF AnswersStand
    <2> QED
        BY <1>7, <1>8, <1>17, <2>5, <2>7, <2>9, <2>12 DEF Absent
<1>18. ASSUME Remember PROVE FleetInv'
    <2> DEFINE met == {i \in DOMAIN pass.snaps : pass.snaps[i].state = "online"}
               of(m) == {i \in met : pass.snaps[i].imei = m}
               last(m) == CHOOSE i \in met : /\ pass.snaps[i].imei = m
                                             /\ \A j \in met : pass.snaps[j].imei = m => j <= i
    <2>1. /\ pass.at = "absent" /\ pass.todo = {}
          /\ seen' = [m \in Module |-> IF \E i \in met : pass.snaps[i].imei = m
                                       THEN pass.snaps[last(m)].site ELSE seen[m]]
          /\ pass' = [pass EXCEPT !.at = "fill", !.cache = row,
                                  !.todo = {i \in met : pass.snaps[i].via = "qmi"}]
        BY <1>18 DEF Remember
    <2>2. DOMAIN pass.snaps = 1..Len(pass.snaps) /\ Len(pass.snaps) \in Nat
        BY <1>2
    <2>3. ASSUME NEW m \in Module, NEW i \in met, pass.snaps[i].imei = m
          PROVE  last(m) \in met /\ pass.snaps[last(m)].site \in Site \cup {Nowhere}
                 /\ m \in Imeis(pass.snaps)
        <3>1. of(m) \in SUBSET (1..Len(pass.snaps)) /\ of(m) # {}
            BY <2>2, <2>3
        <3> HIDE DEF of
        <3>2. PICK g \in of(m) : \A y \in of(m) : y <= g
            BY <2>2, <3>1, GreatestExists
        <3>3. g \in met /\ pass.snaps[g].imei = m /\ \A j \in met : pass.snaps[j].imei = m => j <= g
            BY <3>2 DEF of
        <3>4. last(m) \in met
            BY <3>3
        <3>5. pass.snaps[last(m)] \in SnapShape
            BY <1>0, <3>4
        <3>6. pass.snaps[last(m)].site \in Site \cup {Nowhere}
            <4> HIDE DEF last
            <4> QED
                BY <3>5 DEF SnapShape
        <3>7. i \in DOMAIN pass.snaps
            BY <2>3
        <3>8. m \in Imeis(pass.snaps)
            BY <2>3, <3>7 DEF Imeis
        <3> QED
            BY <3>4, <3>6, <3>8
    <2> HIDE DEF met, last
    <2>4. seen' \in [Module -> Site \cup {Nowhere}]
        <3>1. seen \in [Module -> Site \cup {Nowhere}]
            BY <1>1 DEF FleetTypeOK
        <3>2. \A m \in Module : (\E i \in met : pass.snaps[i].imei = m) =>
                 pass.snaps[last(m)].site \in Site \cup {Nowhere}
            BY <2>3
        <3> QED
            BY <2>1, <3>1, <3>2
    <2> USE DEF met, last
    <2>5. Met' \subseteq Met \cup Imeis(pass.snaps)
        BY <2>1, <2>3 DEF Met
    <2>6. {i \in met : pass.snaps[i].via = "qmi"} \subseteq Nat
        BY <2>2
    <2>7. row \in [Module -> RowShape]
        BY <1>1 DEF FleetTypeOK
    <2> HIDE DEF met
    <2>8. /\ pass' \in PassShape /\ pass'.at = "fill"
          /\ pass'.kept = pass.kept /\ pass'.ever = pass.ever /\ pass'.snaps = pass.snaps
          /\ pass'.heard = pass.heard /\ pass'.unread = pass.unread
        BY <1>2, <2>1, <2>6, <2>7 DEF PassShape
    <2>9. FleetTypeOK'
        BY <1>1, <1>18, <2>4, <2>8 DEF Remember, FleetTypeOK
    <2>10. PassBounds'
        BY <1>1, <1>18, <2>1, <2>8 DEF Remember, PassBounds
    <2>11. NobodySkipped'
        BY <1>1, <2>1, <2>5, <2>8 DEF NobodySkipped
    <2>12. AnswersStand'
        BY <1>1, <2>1, <2>8 DEF AnswersStand, NotOffline
    <2> QED
        BY <1>4, <1>18, <2>9, <2>10, <2>11, <2>12 DEF Remember
<1>19. ASSUME NEW i \in DOMAIN pass.snaps, NEW answers \in BOOLEAN, FillMsisdn(i, answers)
       PROVE  FleetInv'
    <2> DEFINE s == pass.snaps[i]
    <2>1. s \in SnapShape /\ sim[s.imei] \in CardRead /\ s.iccid \in CardRead /\ s.imei \in Module
        BY <1>0, <1>1 DEF SnapShape, FleetTypeOK
    <2>2. /\ pass.at = "fill"
          /\ SetModemMsisdn(s.imei, sim[s.imei], s.iccid) \/ row' = row
          /\ pass' = [pass EXCEPT !.todo = @ \ {i}]
        BY <1>19 DEF FillMsisdn
    <2> HIDE DEF s
    <2>3. row' \in [Module -> RowShape]
        BY <1>1, <2>1, <2>2, RowsKeepShape DEF FleetTypeOK
    <2>4. /\ pass' \in PassShape /\ pass'.at = pass.at
          /\ pass'.kept = pass.kept /\ pass'.ever = pass.ever /\ pass'.snaps = pass.snaps
          /\ pass'.heard = pass.heard /\ pass'.unread = pass.unread
        BY <1>2, <2>2 DEF PassShape
    <2>5. FleetTypeOK'
        BY <1>1, <1>19, <2>3, <2>4 DEF FillMsisdn, FleetTypeOK
    <2>6. PassBounds' /\ NobodySkipped' /\ AnswersStand'
        BY <1>1, <1>19, <2>2, <2>4 DEF FillMsisdn, PassBounds, NobodySkipped, AnswersStand, NotOffline, Met
    <2> QED
        BY <1>4, <1>19, <2>5, <2>6 DEF FillMsisdn
<1>20. ASSUME NEW ok \in BOOLEAN, NEW read \in BOOLEAN, Report(ok, read) PROVE FleetInv'
    <2> DEFINE sent == {<<pass.snaps[i].imei, pass.snaps[i].state>> : i \in DOMAIN pass.snaps}
    <2>1. /\ pass.at = "fill" /\ pass' = Idle
          /\ report' = IF ok THEN DeviceStatePayload(read) ELSE NoReport
        BY <1>20 DEF Report
    <2>2. sent \subseteq Module \X SnapState
        BY <1>0 DEF SnapShape
    <2>3. {e[1] : e \in sent} = Imeis(pass.snaps)
        <3>1. ASSUME NEW i \in DOMAIN pass.snaps
              PROVE  <<pass.snaps[i].imei, pass.snaps[i].state>>[1] = pass.snaps[i].imei
            OBVIOUS
        <3>2. \A e \in sent : e[1] \in Imeis(pass.snaps)
            BY <3>1 DEF Imeis
        <3>3. \A m \in Imeis(pass.snaps) : \E e \in sent : e[1] = m
            BY <3>1 DEF Imeis
        <3> HIDE DEF sent
        <3> QED
            BY <3>2, <3>3
    <2>4. Imeis(pass.snaps) # {} => pass.snaps # <<>>
        BY DEF Imeis
    <2>5. /\ DeviceStatePayload(read).sent = sent
          /\ DeviceStatePayload(read).listed = read
          /\ DeviceStatePayload(read).list = IF read THEN managed ELSE {}
          /\ DeviceStatePayload(read).kept = pass.kept
          /\ DeviceStatePayload(read).ever = pass.ever
          /\ DeviceStatePayload(read).spoken = Met
          /\ DeviceStatePayload(read).heard = pass.heard
          /\ DeviceStatePayload(read).unread = pass.unread
        BY DEF DeviceStatePayload, Adoptions, Met
    <2>6. DeviceStatePayload(read) \in ReportShape
        BY <1>2, <2>2 DEF DeviceStatePayload, Adoptions, ReportShape
    <2> HIDE DEF sent
    <2>7. FleetTypeOK'
        BY <1>1, <1>20, <2>1, <2>6, IdleShape DEF Report, FleetTypeOK
    <2>8. PassBounds' /\ NobodySkipped' /\ AnswersStand'
        BY <2>1, IdleShape DEF PassBounds, NobodySkipped, AnswersStand
    <2>9. AlertInv'
        BY <1>1, <1>20 DEF Report, AlertInv, AlertsAccounted
    <2>10. ReportIsTheFleet'
        <3>1. CASE ok
            <4>1. /\ pass.kept \subseteq managed /\ managed \subseteq pass.ever
                  /\ Imeis(pass.snaps) \subseteq pass.ever
                  /\ Imeis(pass.snaps) # {} =>
                       (pass.kept \cap Met) \ pass.unread \subseteq Imeis(pass.snaps)
                  /\ NotOffline
                BY <1>1, <2>1, <2>4 DEF PassBounds, NobodySkipped, AnswersStand
            <4>3. \A m \in pass.kept \cap pass.heard : <<m, "offline">> \notin sent
                BY <4>1 DEF sent, NotOffline
            <4>2. /\ report'.sent = sent /\ report'.kept = pass.kept /\ report'.ever = pass.ever
                  /\ report'.spoken = Met /\ report'.listed = read
                  /\ report'.heard = pass.heard /\ report'.unread = pass.unread
                  /\ report'.list = IF read THEN managed ELSE {}
                BY <2>1, <2>5, <3>1
            <4> QED
                BY <4>1, <4>2, <4>3, <2>3 DEF ReportIsTheFleet
        <3>2. CASE ~ok
            BY <2>1, <3>2 DEF ReportIsTheFleet, NoReport
        <3> QED
            BY <3>1, <3>2
    <2> QED
        BY <2>7, <2>8, <2>9, <2>10 DEF FleetInv
\* What happens beside the poll.
<1>21. ASSUME NEW m \in Module, NEW s \in Site \cup {Nowhere}, Move(m, s) PROVE FleetInv'
    <2>1. FleetTypeOK'
        BY <1>1, <1>21 DEF Move, Happens, FleetTypeOK
    <2>2. PassBounds' /\ NobodySkipped' /\ AnswersStand'
        BY <1>1, <1>21 DEF Move, PassBounds, NobodySkipped, AnswersStand, NotOffline, Met
    <2> QED
        BY <1>4, <1>21, <2>1, <2>2 DEF Move
<1>22. ASSUME NEW m \in Module, NEW c \in Card \cup {NoCard}, SwapSim(m, c) PROVE FleetInv'
    <2>1. FleetTypeOK'
        BY <1>1, <1>22 DEF SwapSim, Happens, FleetTypeOK, CardRead
    <2>2. PassBounds' /\ NobodySkipped' /\ AnswersStand'
        BY <1>1, <1>22 DEF SwapSim, PassBounds, NobodySkipped, AnswersStand, NotOffline, Met
    <2> QED
        BY <1>4, <1>22, <2>1, <2>2 DEF SwapSim
<1>23. ASSUME NEW now \in SUBSET Module, Happens, Register(now) PROVE FleetInv'
    <2>1. pass' = [pass EXCEPT !.kept = @ \cap now, !.ever = @ \cup now] /\ managed' = now
        BY <1>23 DEF Register
    <2>2. /\ pass' \in PassShape /\ pass'.at = pass.at /\ pass'.todo = pass.todo
          /\ pass'.kept = pass.kept \cap now /\ pass'.ever = pass.ever \cup now
          /\ pass'.snaps = pass.snaps /\ pass'.heard = pass.heard /\ pass'.unread = pass.unread
        BY <1>2, <2>1 DEF PassShape
    <2>3. FleetTypeOK'
        BY <1>1, <1>23, <2>1, <2>2 DEF Register, Happens, FleetTypeOK
    <2>4. PassBounds' /\ NobodySkipped' /\ AnswersStand'
        BY <1>1, <1>23, <2>1, <2>2 DEF Register, PassBounds, NobodySkipped, AnswersStand, NotOffline, Met
    <2> QED
        BY <1>4, <1>23, <2>3, <2>4 DEF Register
<1>24. ASSUME NEW m \in Module, Adopt(m) \/ Release(m) PROVE FleetInv'
    <2>1. managed \cup {m} \in SUBSET Module /\ managed \ {m} \in SUBSET Module
        BY <1>2
    <2> QED
        BY <1>23, <1>24, <2>1 DEF Adopt, Release
<1>25. ASSUME NEW s \in Site, Claim(s) \/ Revoke(s) PROVE FleetInv'
    <2>1. FleetTypeOK'
        BY <1>1, <1>25 DEF Claim, Revoke, Happens, FleetTypeOK
    <2>2. PassBounds' /\ NobodySkipped' /\ AnswersStand'
        BY <1>1, <1>25 DEF Claim, Revoke, PassBounds, NobodySkipped, AnswersStand, NotOffline, Met
    <2> QED
        BY <1>4, <1>25, <2>1, <2>2 DEF Claim, Revoke
<1>26. ASSUME Restart PROVE FleetInv'
    <2>1. FleetTypeOK'
        BY <1>1, <1>26, IdleShape DEF Restart, Happens, FleetTypeOK
    <2>2. PassBounds' /\ NobodySkipped' /\ AnswersStand'
        BY <1>26, IdleShape DEF Restart, PassBounds, NobodySkipped, AnswersStand
    <2>3. AlertInv' /\ ReportIsTheFleet'
        BY <1>26 DEF Restart, AlertInv, AlertsAccounted, Fresh, ReportIsTheFleet, NoReport
    <2> QED
        BY <2>1, <2>2, <2>3 DEF FleetInv
<1>27. CASE UNCHANGED fleetVars
    BY <1>1, <1>27 DEF fleetVars, FleetInv, FleetTypeOK, AlertInv, AlertsAccounted, PassBounds,
                       NobodySkipped, AnswersStand, NotOffline, Met, ReportIsTheFleet
<1> QED
    BY <1>5, <1>6, <1>9, <1>11, <1>12, <1>13, <1>14, <1>15, <1>16, <1>17, <1>18, <1>19, <1>20,
       <1>21, <1>22, <1>24, <1>25, <1>26, <1>27
    DEF FleetNext

\* The inductive invariant of the poll, for any fleet, any window and any number
\* of passes and of things that happen beside them.
THEOREM FleetInvariant == FleetSpec => []FleetInv
BY FleetInitInv, FleetStep, PTL DEF FleetSpec

\* Every DeviceState that names anything names the fleet the operator chose: each
\* module that stayed adopted through the pass and that this process has met, none
\* that was not adopted in it, and none as offline that answered in it; but for a
\* module whose look-up in the registry failed (poll_modems, is_managed).
THEOREM EveryReportIsTheFleet == FleetSpec => []ReportIsTheFleet
<1>1. FleetInv => ReportIsTheFleet
    BY DEF FleetInv
<1> QED
    BY <1>1, FleetInvariant, PTL

\* The throttle forgets no occurrence of a fault (AlertThrottle::consider).
THEOREM AlertsAlwaysAccounted == FleetSpec => []AlertsAccounted
<1>1. FleetInv => AlertsAccounted
    BY DEF FleetInv, AlertInv
<1> QED
    BY <1>1, FleetInvariant, PTL

(***************************************************************************)
(* The proxies.                                                            *)
(***************************************************************************)
Counters == [Field -> Nat]
UpstreamShape == UpstreamChoice \cup {NoUpstream}
RunningShape == [spec : SpecChoice, upstream : UpstreamShape,
                 interface : Interface \cup {NoInterface}, counters : Counters]

\* The tables of the manager are keyed by ids and hold what the cloud sent.
ProxyTypeOK ==
  /\ upstreams \in [UpstreamId -> UpstreamShape]
  /\ DOMAIN running \subseteq Instance /\ running \in [DOMAIN running -> RunningShape]
  /\ DOMAIN failed \subseteq Instance /\ failed \in [DOMAIN failed -> SpecChoice]
  /\ DOMAIN reported \subseteq Instance /\ reported \in [DOMAIN reported -> Counters]
  /\ todo \subseteq Instance \X SpecChoice
  /\ wwan \in [ProxyModem -> Interface \cup {NoInterface}]
  /\ carried \in [Instance -> Counters] /\ cloud \in [Instance -> Counters]

\* What the next report would add to an instance's account.
Unreported(i) ==
  IF i \in DOMAIN running THEN Minus(running[i].counters, Baseline(i)) ELSE Zero

\* The account and what the next report adds to it never exceed what was carried.
AccountsCovered ==
  \A i \in Instance : \A f \in Field : cloud[i][f] + Unreported(i)[f] <= carried[i][f]

\* The inductive invariant of the proxies.
ProxyInv == ProxyTypeOK /\ AccountsCovered

LEMMA CountersAdd ==
  ASSUME NEW a \in Counters, NEW b \in Counters
  PROVE  /\ Plus(a, b) \in Counters /\ Minus(a, b) \in Counters
         /\ Zero \in Counters
         /\ \A f \in Field : Zero[f] = 0 /\ Minus(Zero, b)[f] = 0 /\ Minus(a, a)[f] = 0
<1>1. Field = {"bytes", "connections", "errors"} /\ \A f \in Field : Zero[f] = 0
  BY DEF Field, Zero
<1>2. Zero = [f \in Field |-> 0]
  BY <1>1 DEF Zero, Field
<1> HIDE DEF Zero, Field
<1>3. \A f \in Field : a[f] \in Nat /\ b[f] \in Nat
  BY DEF Counters
<1> QED
  BY <1>2, <1>3 DEF Counters, Plus, Minus

\* What is unreported is a number of units, none of a listener that is new.
LEMMA UnreportedShape ==
  ASSUME ProxyTypeOK, NEW i \in Instance
  PROVE  Unreported(i) \in Counters /\ Baseline(i) \in Counters
<1>1. Zero \in Counters
  BY DEF Counters, Zero, Field
<1>2. Baseline(i) \in Counters
  BY <1>1 DEF Baseline, ProxyTypeOK
<1>3. i \in DOMAIN running => running[i].counters \in Counters
  BY DEF ProxyTypeOK, RunningShape
<1> QED
  BY <1>1, <1>2, <1>3, CountersAdd DEF Unreported

\* Counting is by the same amount on the listener, when there is one, and on
\* what was carried.
LEMMA CountKeepsAccounts ==
  ASSUME ProxyInv, NEW id, NEW counted, NEW what \in Counters, Count(id, counted, what),
         UNCHANGED <<upstreams, failed, reported, todo, wwan, cloud>>
  PROVE  ProxyInv'
<1>1. /\ ProxyTypeOK /\ AccountsCovered
      /\ carried' = [carried EXCEPT ![id] = Plus(@, what)]
      /\ running' = IF counted THEN [running EXCEPT ![id].counters = Plus(@, what)] ELSE running
  BY DEF ProxyInv, Count
<1>2. /\ DOMAIN running' = DOMAIN running
      /\ \A i \in DOMAIN running : running'[i] \in RunningShape
      /\ \A i \in DOMAIN running : \/ running'[i].counters = running[i].counters
                                   \/ /\ i = id
                                      /\ running'[i].counters = Plus(running[i].counters, what)
  <2>1. \A i \in DOMAIN running : running[i] \in RunningShape /\ running[i].counters \in Counters
    BY <1>1 DEF ProxyTypeOK, RunningShape
  <2>2. \A i \in DOMAIN running : Plus(running[i].counters, what) \in Counters
    BY <2>1, CountersAdd
  <2> QED
    BY <1>1, <2>1, <2>2 DEF RunningShape
<1>3. carried' \in [Instance -> Counters]
  BY <1>1, CountersAdd DEF ProxyTypeOK
<1>4. ProxyTypeOK'
  <2>1. running' \in [DOMAIN running' -> RunningShape]
    BY <1>1, <1>2 DEF ProxyTypeOK
  <2> QED
    BY <1>1, <1>2, <1>3, <2>1 DEF ProxyTypeOK
<1>5. ASSUME NEW i \in Instance, NEW f \in Field
      PROVE  cloud'[i][f] + Unreported(i)'[f] <= carried'[i][f]
  <2> DEFINE b == Baseline(i)
  <2>1. b \in Counters /\ Baseline(i)' = b /\ Unreported(i) \in Counters
    BY <1>1, UnreportedShape DEF Baseline
  <2>2. cloud[i] \in Counters /\ cloud' = cloud /\ carried[i] \in Counters /\ carried'[i] \in Counters
    BY <1>1, <1>3 DEF ProxyTypeOK
  <2>3. /\ cloud[i][f] \in Nat /\ carried[i][f] \in Nat /\ b[f] \in Nat /\ what[f] \in Nat
        /\ Unreported(i)[f] \in Nat /\ cloud[i][f] + Unreported(i)[f] <= carried[i][f]
    BY <1>1, <2>1, <2>2 DEF Counters, AccountsCovered
  <2>4. carried'[i] = IF i = id THEN Plus(carried[i], what) ELSE carried[i]
    BY <1>1 DEF ProxyTypeOK
  <2>5. carried'[i][f] = IF i = id THEN carried[i][f] + what[f] ELSE carried[i][f]
    BY <2>4 DEF Plus
  <2>6. CASE i \notin DOMAIN running
    BY <1>2, <2>2, <2>3, <2>5, <2>6 DEF Unreported
  <2>7. CASE i \in DOMAIN running /\ running'[i].counters = running[i].counters
    BY <1>2, <2>1, <2>2, <2>3, <2>5, <2>7 DEF Unreported
  <2>8. CASE i \in DOMAIN running /\ i = id /\ running'[i].counters = Plus(running[i].counters, what)
    <3>1. running[i].counters \in Counters /\ running[i].counters[f] \in Nat
      BY <1>1, <2>8 DEF ProxyTypeOK, RunningShape, Counters
    <3>2. Unreported(i)[f] = IF running[i].counters[f] > b[f] THEN running[i].counters[f] - b[f] ELSE 0
      BY <2>8 DEF Unreported, Minus
    <3>3. Unreported(i)'[f] = IF running[i].counters[f] + what[f] > b[f]
                              THEN running[i].counters[f] + what[f] - b[f] ELSE 0
      <4>1. Unreported(i)' = Minus(Plus(running[i].counters, what), b)
        BY <1>2, <2>1, <2>8 DEF Unreported
      <4>2. Plus(running[i].counters, what)[f] = running[i].counters[f] + what[f]
        BY DEF Plus
      <4> DEFINE p == Plus(running[i].counters, what)
      <4>3. Minus(p, b)[f] = IF p[f] > b[f] THEN p[f] - b[f] ELSE 0
        BY DEF Minus
      <4> HIDE DEF b, p
      <4>4. p[f] = running[i].counters[f] + what[f]
        BY <4>2 DEF p
      <4>5. Unreported(i)'[f] = Minus(p, b)[f]
        BY <4>1 DEF p
      <4> QED
        BY <2>3, <3>1, <4>3, <4>4, <4>5
    <3>4. carried'[i][f] = carried[i][f] + what[f]
      BY <2>5, <2>8
    <3> HIDE DEF b
    <3> QED
      BY <2>2, <2>3, <3>1, <3>2, <3>3, <3>4
  <2> QED
    BY <1>2, <2>6, <2>7, <2>8
<1>6. AccountsCovered'
  BY <1>5 DEF AccountsCovered
<1> QED
  BY <1>4, <1>6 DEF ProxyInv

\* A listener that goes takes with it what it had not reported; the others and
\* the accounts stay.
LEMMA RemovalKeepsAccounts ==
  ASSUME ProxyInv, UNCHANGED <<reported, cloud, carried>>, DOMAIN running' \subseteq DOMAIN running,
         \A i \in DOMAIN running' : running'[i].counters = running[i].counters
  PROVE  AccountsCovered'
<1>1. ProxyTypeOK /\ AccountsCovered
  BY DEF ProxyInv
<1>2. ASSUME NEW i \in Instance, NEW f \in Field
      PROVE  cloud'[i][f] + Unreported(i)'[f] <= carried'[i][f]
  <2>1. cloud[i][f] \in Nat /\ carried[i][f] \in Nat /\ Unreported(i)[f] \in Nat
    BY <1>1, UnreportedShape DEF ProxyTypeOK, Counters
  <2>2. cloud[i][f] + Unreported(i)[f] <= carried[i][f]
    BY <1>1 DEF AccountsCovered
  <2>3. i \in DOMAIN running' => Unreported(i)' = Unreported(i)
    BY DEF Unreported, Baseline
  <2>4. i \notin DOMAIN running' => Unreported(i)'[f] = 0
    BY DEF Unreported, Zero, Field
  <2> QED
    BY <2>1, <2>2, <2>3, <2>4
<1> QED
  BY <1>2 DEF AccountsCovered

LEMMA ProxyInitInv == ProxyInit => ProxyInv
<1> SUFFICES ASSUME ProxyInit PROVE ProxyInv
  OBVIOUS
<1>1. Zero \in Counters /\ \A f \in Field : Zero[f] = 0
  BY DEF Counters, Zero, Field
<1>2. ProxyTypeOK
  BY <1>1 DEF ProxyInit, ProxyTypeOK, UpstreamShape
<1>3. ASSUME NEW i \in Instance PROVE cloud[i] = Zero /\ carried[i] = Zero /\ Unreported(i) = Zero
  BY DEF ProxyInit, Unreported
<1>4. AccountsCovered
  BY <1>1, <1>3 DEF AccountsCovered
<1> QED
  BY <1>2, <1>4 DEF ProxyInv

\* Every step of the manager, of its tasks and of the report keeps the invariant.
LEMMA ProxyStep == ProxyInv /\ [ProxyNext]_proxyVars => ProxyInv'
<1> SUFFICES ASSUME ProxyInv, [ProxyNext]_proxyVars PROVE ProxyInv'
  OBVIOUS
<1>1. ProxyTypeOK /\ AccountsCovered
  BY DEF ProxyInv
<1>2. /\ Zero \in Counters
      /\ [Zero EXCEPT !.connections = 1] \in Counters /\ [Zero EXCEPT !.errors = 1] \in Counters
      /\ \A n \in 0..1 : [Zero EXCEPT !.bytes = n] \in Counters
  BY DEF Counters, Zero, Field
\* Listeners removed, the rest of the tables of their shape.
<1>3. ASSUME NEW S, running' = Without(running, S), UNCHANGED <<reported, cloud, carried, wwan>>,
             upstreams' \in [UpstreamId -> UpstreamShape],
             DOMAIN failed' \subseteq Instance, failed' \in [DOMAIN failed' -> SpecChoice],
             todo' \subseteq Instance \X SpecChoice
      PROVE  ProxyInv'
  <2>1. /\ DOMAIN running' \subseteq DOMAIN running
        /\ \A i \in DOMAIN running' : running'[i] = running[i]
        /\ running' \in [DOMAIN running' -> RunningShape]
    BY <1>1, <1>3 DEF Without, ProxyTypeOK
  <2>2. AccountsCovered'
    BY <1>3, <2>1, RemovalKeepsAccounts
  <2>3. ProxyTypeOK'
    BY <1>1, <1>3, <2>1 DEF ProxyTypeOK
  <2> QED
    BY <2>2, <2>3 DEF ProxyInv
<1>4. CASE Apply
  <2>1. PICK wanted \in [Instance -> SpecChoice \cup {NoSpec}],
             table \in [UpstreamId -> UpstreamChoice \cup {NoUpstream}] :
          /\ upstreams' = table
          /\ \E S : running' = Without(running, S)
          /\ failed' = << >>
          /\ todo' = {<<i, wanted[i]>> : i \in {j \in Instance \ DOMAIN running' : wanted[j].enabled}}
    BY <1>4 DEF Apply
  <2>2. todo' \subseteq Instance \X SpecChoice
    <3>1. ASSUME NEW j \in Instance, wanted[j].enabled PROVE wanted[j] \in SpecChoice
      <4>1. ~NoSpec.enabled
        BY DEF NoSpec
      <4> QED
        BY <3>1, <4>1
    <3> QED
      BY <2>1, <3>1
  <2>3. /\ UNCHANGED <<reported, cloud, carried, wwan>>
        /\ upstreams' \in [UpstreamId -> UpstreamShape]
        /\ DOMAIN failed' \subseteq Instance /\ failed' \in [DOMAIN failed' -> SpecChoice]
    BY <1>4, <2>1 DEF Apply, UpstreamShape
  <2> QED
    BY <1>3, <2>1, <2>2, <2>3
<1>5. CASE Start
  <2>1. PICK t \in todo :
          /\ todo' = todo \ {t}
          /\ IF StartFails(t[2])
             THEN failed' = With(failed, t[1], t[2]) /\ UNCHANGED running
             ELSE /\ running' = With(running, t[1],
                       [spec |-> t[2], upstream |-> Chosen(t[2]),
                        interface |-> InterfaceFor(t[2].modem), counters |-> Zero])
                  /\ UNCHANGED failed
          /\ UNCHANGED <<upstreams, reported, dying, conns, wwan, carried, cloud,
                         leaks, proxyOps, probed>>
    BY <1>5 DEF Start
  <2>2. t[1] \in Instance /\ t[2] \in SpecChoice
    BY <1>1 DEF ProxyTypeOK
  <2>3. Chosen(t[2]) \in UpstreamShape
    <3>1. t[2].upstream \in UpstreamId
      BY <2>2, ProxyAssumption
    <3> QED
      BY <1>1, <3>1 DEF Chosen, ProxyTypeOK, UpstreamShape
  <2>4. InterfaceFor(t[2].modem) \in Interface \cup {NoInterface}
    <3>1. t[2].modem \in ProxyModem
      BY <2>2 DEF ProxyModem
    <3> QED
      BY <1>1, <3>1 DEF InterfaceFor, ProxyTypeOK
  <2>5. CASE StartFails(t[2])
    <3>1. failed' = With(failed, t[1], t[2]) /\ UNCHANGED running
      BY <2>1, <2>5
    <3>2. ProxyTypeOK'
      BY <1>1, <2>1, <2>2, <3>1 DEF ProxyTypeOK, With
    <3>3. AccountsCovered'
      BY <1>1, <2>1, <3>1 DEF AccountsCovered, Unreported, Baseline
    <3> QED
      BY <3>2, <3>3 DEF ProxyInv
  <2>6. CASE ~StartFails(t[2])
    <3> DEFINE r == [spec |-> t[2], upstream |-> Chosen(t[2]),
                     interface |-> InterfaceFor(t[2].modem), counters |-> Zero]
    <3>1. r \in RunningShape /\ r.counters = Zero
      BY <1>2, <2>2, <2>3, <2>4 DEF RunningShape
    <3>2. running' = With(running, t[1], r) /\ UNCHANGED failed
      BY <2>1, <2>6
    <3> HIDE DEF r
    <3>3. /\ DOMAIN running' = DOMAIN running \cup {t[1]} /\ running'[t[1]] = r
          /\ \A i \in DOMAIN running : i # t[1] => running'[i] = running[i]
      BY <3>2 DEF With
    <3>4. running' \in [DOMAIN running' -> RunningShape]
      BY <1>1, <3>1, <3>2 DEF With, ProxyTypeOK
    <3>5. ProxyTypeOK'
      BY <1>1, <2>1, <2>2, <3>2, <3>3, <3>4 DEF ProxyTypeOK
    <3>6. ASSUME NEW i \in Instance, NEW f \in Field
          PROVE  cloud'[i][f] + Unreported(i)'[f] <= carried'[i][f]
      <4>1. cloud' = cloud /\ carried' = carried /\ Baseline(i)' = Baseline(i)
        BY <2>1 DEF Baseline
      <4>2. cloud[i][f] \in Nat /\ carried[i][f] \in Nat /\ Unreported(i)[f] \in Nat
        BY <1>1, UnreportedShape DEF ProxyTypeOK, Counters
      <4>3. cloud[i][f] + Unreported(i)[f] <= carried[i][f]
        BY <1>1 DEF AccountsCovered
      <4>4. CASE i = t[1]
        <5>1. Unreported(i)' = Minus(Zero, Baseline(i))
          BY <3>1, <3>3, <4>1, <4>4 DEF Unreported
        <5>2. Minus(Zero, Baseline(i))[f] = 0
          BY <1>1, <1>2, UnreportedShape, CountersAdd
        <5> QED
          BY <4>1, <4>2, <4>3, <5>1, <5>2
      <4>5. CASE i # t[1]
        <5>1. Unreported(i)' = Unreported(i)
          BY <3>3, <4>1, <4>5 DEF Unreported
        <5> QED
          BY <4>1, <4>3, <5>1
      <4> QED
        BY <4>4, <4>5
    <3> QED
      BY <3>5, <3>6 DEF ProxyInv, AccountsCovered
  <2> QED
    BY <2>5, <2>6
<1>6. CASE StopListener
  <2>1. /\ \E S : running' = Without(running, S)
        /\ UNCHANGED <<upstreams, failed, todo, reported, cloud, carried, wwan>>
    BY <1>6 DEF StopListener
  <2> QED
    BY <1>1, <1>3, <2>1 DEF ProxyTypeOK
<1>7. CASE RestartListener
  <2>1. PICK id \in DOMAIN running \cup DOMAIN failed :
          /\ running' = Without(running, {id})
          /\ todo' = {<<id, IF id \in DOMAIN running THEN running[id].spec ELSE failed[id]>>}
    BY <1>7 DEF RestartListener
  <2>2. /\ id \in Instance
        /\ (IF id \in DOMAIN running THEN running[id].spec ELSE failed[id]) \in SpecChoice
    BY <1>1 DEF ProxyTypeOK, RunningShape
  <2>3. todo' \subseteq Instance \X SpecChoice
    BY <2>1, <2>2
  <2> QED
    BY <1>1, <1>3, <1>7, <2>1, <2>3 DEF RestartListener, ProxyTypeOK
<1>8. CASE Accept
  BY <1>2, <1>8, CountKeepsAccounts DEF Accept
<1>9. CASE AcceptFails
  BY <1>2, <1>9, CountKeepsAccounts DEF AcceptFails
\* Steps that touch no table and no account.
<1>10. ASSUME UNCHANGED <<upstreams, running, failed, reported, todo, carried, cloud>>,
              wwan' \in [ProxyModem -> Interface \cup {NoInterface}]
       PROVE  ProxyInv'
  <2>1. ProxyTypeOK'
    BY <1>1, <1>10 DEF ProxyTypeOK
  <2>2. AccountsCovered'
    BY <1>1, <1>10 DEF AccountsCovered, Unreported, Baseline
  <2> QED
    BY <2>1, <2>2 DEF ProxyInv
<1>11. wwan \in [ProxyModem -> Interface \cup {NoInterface}]
  BY <1>1 DEF ProxyTypeOK
<1>12. CASE HandleClient
  <2>1. PICK c \in conns : \E out \in Outcomes(c) :
          /\ IF out THEN UNCHANGED <<carried, running>>
             ELSE Count(c.id, c.counted, [Zero EXCEPT !.errors = 1])
          /\ UNCHANGED <<upstreams, failed, reported, todo, wwan, cloud>>
    BY <1>12 DEF HandleClient
  <2>2. CASE UNCHANGED <<carried, running>>
    BY <1>10, <1>11, <2>1, <2>2
  <2>3. CASE Count(c.id, c.counted, [Zero EXCEPT !.errors = 1])
    BY <1>2, <2>1, <2>3, CountKeepsAccounts
  <2> QED
    BY <2>1, <2>2, <2>3
<1>13. CASE Relay
  <2>1. PICK c \in conns, n \in 0..1 :
          /\ Count(c.id, c.counted, [Zero EXCEPT !.bytes = n])
          /\ UNCHANGED <<upstreams, failed, reported, todo, wwan, cloud>>
    BY <1>13 DEF Relay
  <2> QED
    BY <1>2, <2>1, CountKeepsAccounts
<1>14. CASE Renumber
  BY <1>10, <1>14 DEF Renumber
<1>15. CASE Reap
  BY <1>10, <1>11, <1>15 DEF Reap
<1>16. CASE ProbeUpstream
  BY <1>10, <1>11, <1>16 DEF ProbeUpstream
<1>17. CASE DrainTraffic
  <2>1. /\ cloud' = [i \in Instance |->
                       IF i \in DOMAIN running
                       THEN Plus(cloud[i], Minus(running[i].counters, Baseline(i)))
                       ELSE cloud[i]]
        /\ reported' = [i \in DOMAIN running |-> running[i].counters]
        /\ UNCHANGED <<upstreams, running, failed, todo, wwan, carried>>
    BY <1>17 DEF DrainTraffic
  <2>2. \A i \in DOMAIN running : running[i].counters \in Counters
    BY <1>1 DEF ProxyTypeOK, RunningShape
  <2>3. ASSUME NEW i \in Instance
        PROVE  cloud'[i] \in Counters /\ \A f \in Field : cloud'[i][f] = cloud[i][f] + Unreported(i)[f]
    <3>1. Unreported(i) \in Counters /\ cloud[i] \in Counters
      BY <1>1, UnreportedShape DEF ProxyTypeOK
    <3>2. CASE i \in DOMAIN running
      <4>1. cloud'[i] = Plus(cloud[i], Unreported(i))
        BY <2>1, <3>2 DEF Unreported
      <4>2. Plus(cloud[i], Unreported(i)) \in Counters
        BY <3>1, CountersAdd
      <4> QED
        BY <4>1, <4>2 DEF Plus
    <3>3. CASE i \notin DOMAIN running
      <4>1. cloud'[i] = cloud[i] /\ Unreported(i) = Zero
        BY <2>1, <3>3 DEF Unreported
      <4>2. \A f \in Field : cloud[i][f] \in Nat /\ Zero[f] = 0
        BY <3>1 DEF Counters, Zero, Field
      <4> QED
        BY <3>1, <4>1, <4>2
    <3> QED
      BY <3>2, <3>3
  <2>4. ProxyTypeOK'
    <3>1. cloud' \in [Instance -> Counters]
      BY <2>1, <2>3
    <3>2. DOMAIN reported' \subseteq Instance /\ reported' \in [DOMAIN reported' -> Counters]
      BY <1>1, <2>1, <2>2 DEF ProxyTypeOK
    <3> QED
      BY <1>1, <2>1, <3>1, <3>2 DEF ProxyTypeOK
  <2>5. ASSUME NEW i \in Instance, NEW f \in Field
        PROVE  cloud'[i][f] + Unreported(i)'[f] <= carried'[i][f]
    <3>1. Unreported(i)'[f] = 0
      <4>1. CASE i \in DOMAIN running
        <5>1. Unreported(i)' = Minus(running[i].counters, running[i].counters)
          BY <2>1, <4>1 DEF Unreported, Baseline
        <5> QED
          BY <2>2, <4>1, <5>1, CountersAdd
      <4>2. CASE i \notin DOMAIN running
        BY <2>1, <4>2 DEF Unreported, Zero, Field
      <4> QED
        BY <4>1, <4>2
    <3>2. cloud'[i][f] = cloud[i][f] + Unreported(i)[f] /\ carried' = carried
      BY <2>1, <2>3
    <3>3. cloud[i][f] \in Nat /\ Unreported(i)[f] \in Nat /\ carried[i][f] \in Nat
      BY <1>1, UnreportedShape DEF ProxyTypeOK, Counters
    <3>4. cloud[i][f] + Unreported(i)[f] <= carried[i][f]
      BY <1>1 DEF AccountsCovered
    <3> QED
      BY <3>1, <3>2, <3>3, <3>4
  <2> QED
    BY <2>4, <2>5 DEF ProxyInv, AccountsCovered
<1>18. CASE UNCHANGED proxyVars
  BY <1>10, <1>11, <1>18 DEF proxyVars
<1> QED
  BY <1>4, <1>5, <1>6, <1>7, <1>8, <1>9, <1>12, <1>13, <1>14, <1>15, <1>16, <1>17, <1>18 DEF ProxyNext

\* The inductive invariant of the proxies, for any listeners and upstreams.
THEOREM ProxyInvariant == ProxySpec => []ProxyInv
BY ProxyInitInv, ProxyStep, PTL DEF ProxySpec

\* What the cloud adds up for an instance never exceeds what its listeners
\* carried, whatever is stopped, restarted or drained in between
\* (drain_traffic).
THEOREM TrafficNeverOvercounted == ProxySpec => []TrafficNotOvercounted
<1>1. ProxyInv => TrafficNotOvercounted
  <2> SUFFICES ASSUME ProxyInv, NEW i \in Instance, NEW f \in Field
               PROVE  cloud[i][f] <= carried[i][f]
    BY DEF TrafficNotOvercounted
  <2>1. cloud[i][f] \in Nat /\ Unreported(i)[f] \in Nat /\ carried[i][f] \in Nat
    BY UnreportedShape DEF ProxyInv, ProxyTypeOK, Counters
  <2>2. cloud[i][f] + Unreported(i)[f] <= carried[i][f]
    BY DEF ProxyInv, AccountsCovered
  <2> QED
    BY <2>1, <2>2
<1> QED
  BY <1>1, ProxyInvariant, PTL

(***************************************************************************)
(* The console.                                                            *)
(***************************************************************************)
ConsoleMode == {"at", "ussd"}
\* The lines the operator chose a mode for.
LinesOf(by, m) == {c \in AtLine \cup UssdCode : <<m, c>> \in by}

\* A line in the box, set aside or remembered is there with a mode chosen for it.
LinesInPlace ==
    /\ mode \in ConsoleMode /\ input \in LinesOf(ByHand, mode) \cup {Blank}
    /\ draft \in ConsoleMode \X (AtLine \cup UssdCode \cup {Blank})
    /\ draft[2] \in LinesOf(ByHand, draft[1]) \cup {Blank}
    /\ history \in Seq(ConsoleMode \X (AtLine \cup UssdCode))
    /\ \A i \in 1..Len(history) : history[i][2] \in LinesOf(ByHand, history[i][1])
    /\ cursor \in 0..Len(history)

RequestShape ==
    [seq : Nat, mode : ConsoleMode \cup {"cancel"}, command : AtLine \cup UssdCode \cup {Blank},
     imei : ConsoleModem, force : BOOLEAN, meant : BOOLEAN]
EntryShape == [seq : Nat, state : {"waiting", "refused", "answered", "lost"}]

\* The type of what the page and the panel's server keep.
ConsoleTypeOK ==
    /\ {force, ticked, ussdOpen} \subseteq BOOLEAN
    /\ entries \in Seq(EntryShape) /\ dropped \in Nat /\ asked \in Nat
    /\ target \in ConsoleModem
    /\ flying \subseteq RequestShape /\ reached \subseteq RequestShape
    /\ keys \in Nat

\* The box is ticked only by the operator, and a request is forced only when it
\* is meant.
ForcedIsMeant ==
    /\ force => ticked
    /\ \A r \in flying : r.force => r.meant

\* Entries are numbered without a hole up to the last asked, and no two requests
\* in flight have one number.
Numbered ==
    /\ \A i \in 1..Len(entries) : entries[i].seq = dropped + i
    /\ \A r \in flying : r.seq <= asked
    /\ \A r, s \in flying : r.seq = s.seq => r = s

\* The inductive invariant of the console.
ConsoleInv ==
    /\ ConsoleTypeOK /\ LinesInPlace /\ ForcedIsMeant /\ Numbered
    /\ MeantOrHarmless /\ RightEndpoint /\ TranscriptHonest

\* A segment the tables do not hold back changes nothing, unless it is one that is
\* set with a blank before its `='.
LEMMA NoRiskIsHarmless ==
    ASSUME NEW s, SegmentRisk(s) = "none", Disrupts(s)
    PROVE  s.form = "spaced"
<1>1. CASE s.form = "bare"
    <2>1. s.name \in UNION {BareRisks[k] : k \in DOMAIN BareRisks}
        BY <1>1, TablesAssumption DEF Disrupts
    <2>2. PICK k \in DOMAIN BareRisks : s.name \in BareRisks[k]
        BY <2>1
    <2>3. "none" \notin DOMAIN BareRisks
        BY DEF BareRisks
    <2>4. SegmentRisk(s) \in DOMAIN BareRisks
        <3> HIDE DEF BareRisks
        <3> QED
            BY <1>1, <2>2 DEF SegmentRisk
    <2> QED
        BY <2>3, <2>4
<1>2. CASE s.form # "bare"
    <2>1. Sets(s) /\ s.name \in UNION {WriteRisks[k] : k \in DOMAIN WriteRisks}
        BY <1>2, TablesAssumption DEF Disrupts
    <2>2. PICK k \in DOMAIN WriteRisks : s.name \in WriteRisks[k]
        BY <2>1
    <2>3. "none" \notin DOMAIN WriteRisks
        BY DEF WriteRisks
    <2>4. ASSUME s.form = "write" PROVE FALSE
        <3>1. SegmentRisk(s) \in DOMAIN WriteRisks
            <4> HIDE DEF WriteRisks
            <4> QED
                BY <1>2, <2>2, <2>4 DEF SegmentRisk, IsWrite
        <3> QED
            BY <2>3, <3>1
    <2> QED
        BY <2>1, <2>4 DEF Sets
<1> QED
    BY <1>1, <1>2

\* A command that classify lets pass without force is an AT command none of whose
\* segments the tables hold back.
LEMMA UnforcedIsHarmless ==
    ASSUME NEW c, Classify(c) = "none"
    PROVE  c.at /\ \A i \in 1..Len(c.segs) : SegmentRisk(c.segs[i]) = "none"
<1> DEFINE risky == {i \in 1..Len(c.segs) : SegmentRisk(c.segs[i]) # "none"}
           first == CHOOSE i \in risky : \A j \in risky : i <= j
<1>1. c.at
    BY DEF Classify
<1>2. ASSUME risky # {} PROVE FALSE
    <2>1. Classify(c) = SegmentRisk(c.segs[first])
        BY <1>1, <1>2 DEF Classify
    <2>2. risky \in SUBSET Nat /\ risky # {}
        BY <1>2
    <2>3. first \in risky
        <3> HIDE DEF risky
        <3> QED
            BY <2>2, LeastNatural
    <2> QED
        BY <2>1, <2>3
<1> QED
    BY <1>1, <1>2

LEMMA NextNumber ==
    ASSUME NEW a \in Nat, NEW b \in Nat, NEW c \in Nat, a + b = c
    PROVE  a + (b + 1) = c + 1
OBVIOUS

\* push: the new entry comes last, and the oldest make way.
LEMMA PushKeepsNumbers ==
    ASSUME entries \in Seq(EntryShape), dropped \in Nat, asked \in Nat,
           \A i \in 1..Len(entries) : entries[i].seq = dropped + i,
           dropped + Len(entries) = asked,
           NEW e \in EntryShape, e.seq = asked + 1, Push(e)
    PROVE  /\ entries' \in Seq(EntryShape) /\ dropped' \in Nat
           /\ dropped' + Len(entries') = asked + 1
           /\ \A i \in 1..Len(entries') :
                /\ entries'[i].seq = dropped' + i
                /\ entries'[i] = e \/ \E j \in 1..Len(entries) : entries'[i] = entries[j]
<1> DEFINE all == Append(entries, e)
           over == IF Len(all) > KeepEntries THEN Len(all) - KeepEntries ELSE 0
<1>1. /\ all \in Seq(EntryShape) /\ Len(all) = Len(entries) + 1
      /\ all[Len(entries) + 1] = e
      /\ \A j \in 1..Len(entries) : all[j] = entries[j]
      /\ Len(entries) \in Nat
    OBVIOUS
<1>2. entries' = SubSeq(all, over + 1, Len(all)) /\ dropped' = dropped + over
    BY DEF Push
<1>3. over \in Nat /\ over + 1 <= Len(all)
    BY <1>1, ConsoleAssumption
<1> HIDE DEF all, over
<1>4. /\ entries' \in Seq(EntryShape) /\ Len(entries') = Len(all) - over
      /\ \A i \in 1..Len(entries') : entries'[i] = all[over + i]
    <2>1. Len(all) \in Nat /\ over + 1 \in Nat
        BY <1>1, <1>3
    <2>2. Len(entries') = Len(all) - over
        BY <1>1, <1>2, <1>3, <2>1
    <2>3. \A i \in 1..(Len(all) - over) : entries'[i] = all[over + i]
        BY <1>1, <1>2, <1>3, <2>1
    <2>4. entries' \in Seq(EntryShape)
        BY <1>1, <1>2, <1>3, <2>1
    <2> QED
        BY <2>2, <2>3, <2>4
<1>5. \A j \in 1..Len(all) : all[j].seq = dropped + j
                             /\ (all[j] = e \/ \E k \in 1..Len(entries) : all[j] = entries[k])
    <2> SUFFICES ASSUME NEW j \in 1..Len(all)
                 PROVE  /\ all[j].seq = dropped + j
                        /\ all[j] = e \/ \E k \in 1..Len(entries) : all[j] = entries[k]
        OBVIOUS
    <2>1. CASE j \in 1..Len(entries)
        BY <1>1, <2>1
    <2>2. CASE j = Len(entries) + 1
        <3>1. dropped + (Len(entries) + 1) = asked + 1
            BY <1>1, NextNumber
        <3> QED
            BY <1>1, <2>2, <3>1
    <2> QED
        BY <1>1, <2>1, <2>2
<1>6. ASSUME NEW i \in 1..Len(entries')
      PROVE  /\ entries'[i].seq = dropped' + i
             /\ entries'[i] = e \/ \E j \in 1..Len(entries) : entries'[i] = entries[j]
    <2>1. over + i \in 1..Len(all) /\ i \in Nat
        BY <1>1, <1>3, <1>4
    <2>2. entries'[i] = all[over + i] /\ all[over + i].seq = dropped + (over + i)
        BY <1>4, <1>5, <2>1
    <2>3. dropped + (over + i) = dropped' + i
        BY <1>2, <1>3, <2>1
    <2> QED
        BY <1>5, <2>1, <2>2, <2>3
<1>7. dropped' \in Nat /\ dropped' + Len(entries') = asked + 1
    <2>1. PICK n \in Nat : n = Len(entries)
        BY <1>1
    <2>2. PICK k \in Nat : k = over
        BY <1>3
    <2>3. dropped' = dropped + k /\ Len(entries') = (n + 1) - k /\ dropped + n = asked
        BY <1>1, <1>2, <1>4, <2>1, <2>2
    <2>4. dropped + k + ((n + 1) - k) = (dropped + n) + 1
        OBVIOUS
    <2> QED
        BY <2>3, <2>4
<1> QED
    BY <1>4, <1>6, <1>7

\* update_entry changes the state of the one entry of that number.
LEMMA UpdateKeepsNumbers ==
    ASSUME entries \in Seq(EntryShape), NEW n, NEW state \in {"answered", "lost"},
           UpdateEntry(n, state)
    PROVE  /\ entries' \in Seq(EntryShape) /\ Len(entries') = Len(entries)
           /\ \A i \in 1..Len(entries) :
                /\ entries'[i].seq = entries[i].seq
                /\ entries'[i].state = IF entries[i].seq = n THEN state ELSE entries[i].state
<1>1. \A i \in 1..Len(entries) : entries[i] \in EntryShape
    OBVIOUS
<1>2. entries' = [i \in 1..Len(entries) |->
                    IF entries[i].seq = n THEN [entries[i] EXCEPT !.state = state] ELSE entries[i]]
    BY DEF UpdateEntry
<1>3. \A i \in 1..Len(entries) :
        /\ entries'[i] \in EntryShape /\ entries'[i].seq = entries[i].seq
        /\ entries'[i].state = IF entries[i].seq = n THEN state ELSE entries[i].state
    BY <1>1, <1>2 DEF EntryShape
<1>4. entries' \in [1..Len(entries) -> EntryShape] /\ Len(entries) \in Nat
    BY <1>2, <1>3
<1>5. entries' \in Seq(EntryShape) /\ Len(entries') = Len(entries)
    BY <1>4
<1> QED
    BY <1>3, <1>5

LEMMA ConsoleInitInv == ConsoleInit => ConsoleInv
<1> SUFFICES ASSUME ConsoleInit PROVE ConsoleInv
    OBVIOUS
<1>1. entries = <<>> /\ Len(entries) = 0 /\ entries \in Seq(EntryShape)
    BY DEF ConsoleInit
<1>4. ConsoleTypeOK /\ Numbered /\ ForcedIsMeant
    <2>1. ConsoleTypeOK
        BY <1>1 DEF ConsoleInit, ConsoleTypeOK
    <2>2. Numbered
        BY <1>1 DEF ConsoleInit, Numbered
    <2>3. ForcedIsMeant
        BY DEF ConsoleInit, ForcedIsMeant
    <2> QED
        BY <2>1, <2>2, <2>3
<1>2. LinesInPlace
    BY DEF ConsoleInit, LinesInPlace, ConsoleMode
<1>3. MeantOrHarmless /\ RightEndpoint /\ TranscriptHonest
    BY DEF ConsoleInit, MeantOrHarmless, RightEndpoint, TranscriptHonest
<1> QED
    BY <1>2, <1>3, <1>4 DEF ConsoleInv

\* A request that reaches a module: forced, and then meant, or harmless.
LEMMA DeliveredIsMeant ==
    ASSUME NEW r \in RequestShape, r.force => r.meant, Delivered(r), r.mode = "at"
    PROVE  r.meant \/ (r.command.at /\ \A i \in 1..Len(r.command.segs) :
                          Disrupts(r.command.segs[i]) => r.command.segs[i].form = "spaced")
<1>1. CASE r.force
    BY <1>1
<1>2. CASE ~r.force
    <2>1. Classify(r.command) = "none"
        BY <1>2 DEF Delivered, RefuseDisruptiveAt
    <2>2. r.command.at /\ \A i \in 1..Len(r.command.segs) : SegmentRisk(r.command.segs[i]) = "none"
        BY <2>1, UnforcedIsHarmless
    <2> QED
        BY <2>2, NoRiskIsHarmless
<1> QED
    BY <1>1, <1>2

\* Every key, send and answer keeps the invariant.
LEMMA ConsoleStep == ConsoleInv /\ [ConsoleNext]_consoleVars => ConsoleInv'
<1> SUFFICES ASSUME ConsoleInv, [ConsoleNext]_consoleVars PROVE ConsoleInv'
    OBVIOUS
<1>1. /\ ConsoleTypeOK /\ LinesInPlace /\ ForcedIsMeant /\ Numbered
      /\ MeantOrHarmless /\ RightEndpoint /\ TranscriptHonest
    BY DEF ConsoleInv
\* What a step that neither sends nor receives has to show.
<1>2. ASSUME UNCHANGED <<history, entries, dropped, asked, flying, reached>>, paired \subseteq paired',
             {force', ticked', ussdOpen'} \subseteq BOOLEAN, force' => ticked',
             target' \in ConsoleModem, keys' \in Nat,
             mode' \in ConsoleMode, input' \in LinesOf(ByHand', mode') \cup {Blank},
             \/ draft' = draft
             \/ \E m \in ConsoleMode : \E l \in LinesOf(ByHand, m) \cup {Blank} : draft' = <<m, l>>,
             cursor' \in 0..Len(history)
      PROVE  ConsoleInv'
    <2>1. ConsoleTypeOK'
        BY <1>1, <1>2 DEF ConsoleTypeOK
    <2>4. ByHand \subseteq ByHand' /\ \A m : LinesOf(ByHand, m) \subseteq LinesOf(ByHand', m)
        <3>1. ByHand \subseteq ByHand'
            BY <1>2 DEF ByHand
        <3> HIDE DEF ByHand
        <3> QED
            BY <3>1 DEF LinesOf
    <2>2. LinesInPlace'
        <3>1. /\ draft' \in ConsoleMode \X (AtLine \cup UssdCode \cup {Blank})
              /\ draft'[2] \in LinesOf(ByHand, draft'[1]) \cup {Blank}
            <4>1. CASE draft' = draft
                BY <1>1, <4>1 DEF LinesInPlace
            <4>2. ASSUME NEW m \in ConsoleMode, NEW l \in LinesOf(ByHand, m) \cup {Blank},
                         draft' = <<m, l>>
                  PROVE  /\ draft' \in ConsoleMode \X (AtLine \cup UssdCode \cup {Blank})
                         /\ draft'[2] \in LinesOf(ByHand, draft'[1]) \cup {Blank}
                <5>1. l \in AtLine \cup UssdCode \cup {Blank}
                    BY <4>2 DEF LinesOf
                <5>2. draft'[1] = m /\ draft'[2] = l
                    BY <4>2
                <5> QED
                    BY <4>2, <5>1, <5>2
            <4> QED
                BY <1>2, <4>1, <4>2
        <3>2. /\ draft'[2] \in LinesOf(ByHand', draft'[1]) \cup {Blank}
              /\ \A i \in 1..Len(history) : history[i][2] \in LinesOf(ByHand', history[i][1])
            BY <1>1, <2>4, <3>1 DEF LinesInPlace
        <3> QED
            BY <1>1, <1>2, <3>1, <3>2 DEF LinesInPlace
    <2>3. ForcedIsMeant' /\ Numbered' /\ MeantOrHarmless' /\ RightEndpoint' /\ TranscriptHonest'
        BY <1>1, <1>2, <2>4 DEF ForcedIsMeant, Numbered, MeantOrHarmless, RightEndpoint, TranscriptHonest
    <2> QED
        BY <2>1, <2>2, <2>3 DEF ConsoleInv
<1>3. /\ {force, ticked, ussdOpen} \subseteq BOOLEAN /\ (force => ticked)
      /\ target \in ConsoleModem /\ keys \in Nat /\ keys + 1 \in Nat
      /\ mode \in ConsoleMode /\ input \in LinesOf(ByHand, mode) \cup {Blank}
      /\ cursor \in 0..Len(history) /\ cursor \in Nat /\ Len(history) \in Nat
      /\ \A i \in 1..Len(history) : /\ history[i][1] \in ConsoleMode
                                    /\ history[i][2] \in LinesOf(ByHand, history[i][1])
                                    /\ history[i] \in ConsoleMode \X (AtLine \cup UssdCode)
      /\ draft[1] \in ConsoleMode /\ draft[2] \in LinesOf(ByHand, draft[1]) \cup {Blank}
    <2>1. \A i \in 1..Len(history) : history[i] \in ConsoleMode \X (AtLine \cup UssdCode)
        BY <1>1 DEF LinesInPlace
    <2> QED
        BY <1>1, <2>1 DEF ConsoleTypeOK, LinesInPlace, ForcedIsMeant
\* Keys that choose nothing new.
<1>21. ASSUME paired' = paired
       PROVE  paired \subseteq paired' /\ ByHand' = ByHand
    BY <1>21 DEF ByHand
<1>4. CASE ArrowUp
    <2>1. /\ Back[1] \in 0..Len(history) /\ Back[2][1] \in ConsoleMode
          /\ Back[2][2] \in LinesOf(ByHand, Back[2][1]) \cup {Blank}
        <3>1. CASE history = <<>>
            <4>1. Back = <<cursor, <<mode, input>>>>
                BY <3>1 DEF Back
            <4> QED
                BY <1>3, <4>1
        <3>2. CASE history # <<>>
            <4> DEFINE i == IF cursor = 0 THEN Len(history) ELSE IF cursor = 1 THEN 1 ELSE cursor - 1
            <4>1. Len(history) # 0
                BY <1>1, <3>2 DEF LinesInPlace
            <4>2. i \in 1..Len(history)
                BY <1>3, <4>1
            <4>3. Back = <<i, history[i]>>
                BY <3>2 DEF Back
            <4> HIDE DEF i
            <4> QED
                BY <1>3, <4>2, <4>3
        <3> QED
            BY <3>1, <3>2
    <2>2. draft' = draft \/ draft' = <<mode, input>>
        BY <1>4 DEF ArrowUp
    <2> QED
        BY <1>21, <1>2, <1>3, <1>4, <2>1, <2>2 DEF ArrowUp, NothingSent, Key
<1>5. CASE ArrowDown
    <2>1. /\ Forward[1] \in 0..Len(history) /\ Forward[2][1] \in ConsoleMode
          /\ Forward[2][2] \in LinesOf(ByHand, Forward[2][1]) \cup {Blank}
        <3>1. CASE cursor # 0 /\ cursor < Len(history)
            <4>1. cursor + 1 \in 1..Len(history)
                BY <1>3, <3>1
            <4>2. Forward = <<cursor + 1, history[cursor + 1]>>
                BY <3>1 DEF Forward
            <4> QED
                BY <1>3, <4>1, <4>2
        <3>2. CASE ~(cursor # 0 /\ cursor < Len(history))
            <4>1. Forward = <<0, draft>>
                BY <3>2 DEF Forward
            <4> QED
                BY <1>3, <4>1
        <3> QED
            BY <3>1, <3>2
    <2> QED
        BY <1>21, <1>2, <1>3, <1>5, <2>1 DEF ArrowDown, NothingSent, Key
<1>6. CASE Escape
    BY <1>21, <1>2, <1>3, <1>6 DEF Escape, NothingSent, Key
<1>7. CASE Type
    <2>1. /\ input' \in AtLine \cup UssdCode /\ mode' = mode
          /\ paired' = paired \cup {<<mode, input'>>}
        BY <1>7 DEF Type
    <2>2. input' \in LinesOf(ByHand', mode') /\ paired \subseteq paired'
        BY <2>1 DEF LinesOf, ByHand
    <2> QED
        BY <1>2, <1>3, <1>7, <2>1, <2>2 DEF Type, NothingSent, Key
<1>8. CASE PickMode
    <2>1. /\ mode' \in ConsoleMode /\ input' = input
          /\ input # Blank => paired' = paired \cup {<<mode', input>>}
          /\ paired \subseteq paired'
        BY <1>8 DEF PickMode, ConsoleMode
    <2>2. input' \in LinesOf(ByHand', mode') \cup {Blank}
        BY <1>3, <2>1 DEF LinesOf, ByHand
    <2> QED
        BY <1>2, <1>3, <1>8, <2>1, <2>2 DEF PickMode, NothingSent, Key
<1>9. CASE Tick
    BY <1>21, <1>2, <1>3, <1>9 DEF Tick, NothingSent, Key
<1>10. CASE Aim
    BY <1>2, <1>3, <1>10, <1>21 DEF Aim, Key
<1>11. /\ entries \in Seq(EntryShape) /\ dropped \in Nat /\ asked \in Nat /\ asked + 1 \in Nat
       /\ \A j \in 1..Len(entries) : entries[j].seq = dropped + j /\ dropped + j <= asked
       /\ dropped + Len(entries) = asked /\ Len(entries) \in Nat
       /\ flying \subseteq RequestShape /\ reached \subseteq RequestShape
       /\ \A r \in flying : r.seq \in Nat /\ r.seq <= asked
    <2>1. entries \in Seq(EntryShape) /\ dropped \in Nat /\ asked \in Nat /\ Len(entries) \in Nat
        BY <1>1 DEF ConsoleTypeOK
    <2>2. /\ dropped + Len(entries) = asked
          /\ \A j \in 1..Len(entries) : entries[j].seq = dropped + j
          /\ \A r \in flying : r.seq <= asked
        BY <1>1 DEF TranscriptHonest, Numbered
    <2>3. flying \subseteq RequestShape /\ reached \subseteq RequestShape
        BY <1>1 DEF ConsoleTypeOK
    <2>4. \A j \in 1..Len(entries) : dropped + j <= asked
        BY <2>1, <2>2
    <2> QED
        BY <2>1, <2>2, <2>3, <2>4 DEF RequestShape
\* What a step that writes one more entry has to show.
<1>12. ASSUME NEW state \in {"waiting", "refused"}, Push(Entry(state)), asked' = asked + 1,
              UNCHANGED <<reached, ussdOpen, target, paired, keys>>,
              {force', ticked'} \subseteq BOOLEAN, force' => ticked', LinesInPlace',
              \/ state = "refused" /\ flying' = flying
              \/ /\ state = "waiting"
                 /\ \E q \in RequestShape :
                      /\ q.seq = asked + 1 /\ (q.force => q.meant)
                      /\ q.mode # "cancel" => <<q.mode, q.command>> \in ByHand
                      /\ flying' = flying \cup {q}
       PROVE  ConsoleInv'
    <2> DEFINE e == Entry(state)
    <2>1. e \in EntryShape /\ e.seq = asked + 1 /\ e.state = state
        BY <1>11 DEF Entry, EntryShape
    <2> HIDE DEF e
    <2>2. Push(e)
        BY <1>12 DEF e
    <2>3. /\ entries' \in Seq(EntryShape) /\ dropped' \in Nat
          /\ dropped' + Len(entries') = asked + 1
          /\ \A i \in 1..Len(entries') :
               /\ entries'[i].seq = dropped' + i
               /\ entries'[i] = e \/ \E j \in 1..Len(entries) : entries'[i] = entries[j]
        BY <1>11, <2>1, <2>2, PushKeepsNumbers
    <2>4. /\ flying' \subseteq RequestShape
          /\ \A r \in flying' : (r.force => r.meant) /\ r.seq <= asked + 1
          /\ \A r \in flying' : r.mode # "cancel" /\ r.seq # 0 => <<r.mode, r.command>> \in ByHand
          /\ \A r \in flying' : r \in flying \/ (r.seq = asked + 1 /\ state = "waiting")
          /\ \A r, s \in flying' : r.seq = s.seq => r = s
          /\ flying \subseteq flying'
          /\ state = "waiting" <=> \E r \in flying' : r.seq = asked + 1
        <3>1. /\ \A r \in flying : (r.force => r.meant) /\ r.seq <= asked + 1 /\ r.seq # asked + 1
              /\ \A r \in flying : r.mode # "cancel" /\ r.seq # 0 => <<r.mode, r.command>> \in ByHand
              /\ \A r, s \in flying : r.seq = s.seq => r = s
            BY <1>1, <1>11 DEF ForcedIsMeant, RightEndpoint, Numbered
        <3>2. CASE state = "refused" /\ flying' = flying
            BY <1>11, <3>1, <3>2
        <3>3. CASE state # "refused"
            <4>1. PICK q \in RequestShape :
                      /\ q.seq = asked + 1 /\ (q.force => q.meant)
                      /\ q.mode # "cancel" => <<q.mode, q.command>> \in ByHand
                      /\ flying' = flying \cup {q}
                BY <1>12, <3>3
            <4> QED
                BY <1>11, <1>12, <3>1, <3>3, <4>1
        <3> QED
            BY <1>12, <3>2, <3>3
    <2>5. ConsoleTypeOK'
        BY <1>1, <1>11, <1>12, <2>3, <2>4 DEF ConsoleTypeOK
    <2>6. ForcedIsMeant' /\ Numbered'
        BY <1>12, <2>3, <2>4 DEF ForcedIsMeant, Numbered
    <2>7. MeantOrHarmless'
        BY <1>1, <1>12 DEF MeantOrHarmless
    <2>8. RightEndpoint'
        <3>1. ByHand' = ByHand
            BY <1>12 DEF ByHand
        <3> QED
            BY <1>1, <1>12, <2>4, <3>1 DEF RightEndpoint
    <2>9. ASSUME NEW i \in 1..Len(entries')
          PROVE  entries'[i].state = "waiting" <=> \E r \in flying' : r.seq = entries'[i].seq
        <3>1. CASE entries'[i] = e
            BY <2>1, <2>4, <3>1
        <3>2. ASSUME NEW j \in 1..Len(entries), entries'[i] = entries[j]
              PROVE  entries'[i].state = "waiting" <=> \E r \in flying' : r.seq = entries'[i].seq
            <4>1. entries[j].state = "waiting" <=> \E r \in flying : r.seq = entries[j].seq
                BY <1>1 DEF TranscriptHonest
            <4>2. entries[j].seq # asked + 1
                BY <1>11
            <4> QED
                BY <2>4, <3>2, <4>1, <4>2
        <3> QED
            BY <2>3, <3>1, <3>2
    <2>10. TranscriptHonest'
        BY <1>12, <2>3, <2>9 DEF TranscriptHonest
    <2> QED
        BY <1>12, <2>5, <2>6, <2>7, <2>8, <2>10 DEF ConsoleInv
<1>13. ASSUME NEW m \in ConsoleMode, NEW c \in LinesOf(ByHand, m) \cup {Blank}, Run(m, c) PROVE ConsoleInv'
    <2> DEFINE what == Guarded(c)
               dialog == IF what \in Dialogs THEN Ask(what, c, target) ELSE NoDialog
               q == Request(m, c, force \/ what \in Dialogs, dialog)
    <2>1. /\ c \in LinesOf(ByHand, m) /\ asked' = asked + 1
          /\ UNCHANGED <<reached, ussdOpen, target, paired, keys>>
        BY <1>13 DEF Run
    <2>4. ByHand' = ByHand /\ <<m, c>> \in ByHand
        BY <2>1 DEF ByHand, LinesOf
    <2>2. CASE /\ what \in Dialogs /\ Push(Entry("refused"))
               /\ UNCHANGED <<mode, force, input, history, cursor, draft, flying, ticked>>
        <3>1. LinesInPlace'
            BY <1>1, <2>2, <2>4 DEF LinesInPlace
        <3> QED
            BY <1>3, <1>12, <2>1, <2>2, <3>1
    <2>3. CASE /\ flying' = flying \cup {q} /\ history' = RememberLine(m, c)
               /\ cursor' = 0 /\ draft' = <<m, Blank>> /\ input' = Blank
               /\ Resets /\ ticked' = FALSE /\ Push(Entry("waiting")) /\ UNCHANGED mode
        <3>1. /\ q \in RequestShape /\ q.seq = asked + 1 /\ q.mode = m /\ q.command = c
              /\ q.force => q.meant
            <4>1. c \in AtLine \cup UssdCode
                BY <2>1 DEF LinesOf
            <4>2. what \in Dialogs => dialog = Ask(Guarded(c), c, target)
                OBVIOUS
            <4> HIDE DEF what, dialog
            <4>3. /\ q.seq = asked + 1 /\ q.mode = m /\ q.command = c /\ q.imei = target
                  /\ q.force = (force \/ what \in Dialogs)
                  /\ q.meant = (ticked \/ dialog = Ask(Guarded(c), c, target))
                BY DEF Request
            <4>4. q \in RequestShape
                BY <1>3, <1>11, <4>1 DEF Request, RequestShape
            <4> QED
                BY <1>3, <4>2, <4>3, <4>4
        <3> HIDE DEF q
        <3>2. /\ RememberLine(m, c) \in Seq(ConsoleMode \X (AtLine \cup UssdCode))
              /\ \A i \in 1..Len(RememberLine(m, c)) :
                    RememberLine(m, c)[i][2] \in LinesOf(ByHand, RememberLine(m, c)[i][1])
            <4> DEFINE all == Append(history, <<m, c>>)
            <4>1. <<m, c>> \in ConsoleMode \X (AtLine \cup UssdCode)
                BY <2>1 DEF LinesOf
            <4>2. history \in Seq(ConsoleMode \X (AtLine \cup UssdCode))
                BY <1>1 DEF LinesInPlace
            <4>3. /\ all \in Seq(ConsoleMode \X (AtLine \cup UssdCode)) /\ all # <<>>
                  /\ Len(all) = Len(history) + 1 /\ all[Len(history) + 1] = <<m, c>>
                  /\ \A i \in 1..Len(history) : all[i] = history[i]
                <5>1. ASSUME NEW S, NEW h \in Seq(S), NEW x \in S
                      PROVE  /\ Append(h, x) \in Seq(S) /\ Append(h, x) # <<>>
                             /\ Len(Append(h, x)) = Len(h) + 1 /\ Append(h, x)[Len(h) + 1] = x
                             /\ \A i \in 1..Len(h) : Append(h, x)[i] = h[i]
                    OBVIOUS
                <5> QED
                    BY <4>1, <4>2, <5>1
            <4>4. \A i \in 1..Len(all) : all[i][2] \in LinesOf(ByHand, all[i][1])
                <5> SUFFICES ASSUME NEW i \in 1..Len(all) PROVE all[i][2] \in LinesOf(ByHand, all[i][1])
                    OBVIOUS
                <5> HIDE DEF all
                <5>1. CASE i \in 1..Len(history)
                    BY <1>3, <4>3, <5>1
                <5>2. CASE i = Len(history) + 1
                    BY <2>1, <4>3, <5>2
                <5> QED
                    BY <1>3, <4>3, <5>1, <5>2
            <4>5. /\ Tail(all) \in Seq(ConsoleMode \X (AtLine \cup UssdCode))
                  /\ Len(Tail(all)) = Len(all) - 1
                  /\ \A i \in 1..Len(Tail(all)) : Tail(all)[i] = all[i + 1] /\ i + 1 \in 1..Len(all)
                <5> HIDE DEF all
                <5> QED
                    BY <4>3
            <4>6. \A i \in 1..Len(Tail(all)) : Tail(all)[i][2] \in LinesOf(ByHand, Tail(all)[i][1])
                <5> HIDE DEF all
                <5> QED
                    BY <4>4, <4>5
            <4>7. RememberLine(m, c) \in {history, all, Tail(all)}
                BY DEF RememberLine
            <4> HIDE DEF all
            <4> QED
                BY <1>3, <4>2, <4>3, <4>4, <4>5, <4>6, <4>7
        <3>3. LinesInPlace'
            <4>1. /\ mode' \in ConsoleMode /\ input' = Blank /\ cursor' = 0
                  /\ draft' \in ConsoleMode \X (AtLine \cup UssdCode \cup {Blank})
                  /\ draft'[2] = Blank
                BY <1>3, <2>3
            <4>2. /\ history' \in Seq(ConsoleMode \X (AtLine \cup UssdCode))
                  /\ \A i \in 1..Len(history') : history'[i][2] \in LinesOf(ByHand, history'[i][1])
                  /\ Len(history') \in Nat
                <5>1. history' = RememberLine(m, c)
                    BY <2>3
                <5> HIDE DEF RememberLine
                <5> QED
                    BY <3>2, <5>1
            <4> QED
                BY <2>4, <4>1, <4>2 DEF LinesInPlace
        <3> QED
            BY <1>12, <2>1, <2>3, <2>4, <3>1, <3>3 DEF Resets
    <2> QED
        BY <1>13, <2>2, <2>3 DEF Run
<1>14. CASE Send
    BY <1>3, <1>13, <1>14 DEF Send
<1>15. CASE Probe
    <2>1. PICK c \in Quick : Run("at", c)
        BY <1>15 DEF Probe
    <2>2. "at" \in ConsoleMode /\ c \in LinesOf(ByHand, "at")
        BY ConsoleAssumption DEF ConsoleMode, LinesOf, ByHand
    <2> QED
        BY <1>13, <2>1, <2>2
<1>16. CASE CancelUssd
    <2> DEFINE q == [Request("cancel", Blank, FALSE, NoDialog) EXCEPT !.meant = TRUE]
    <2>1. q \in RequestShape /\ q.seq = asked + 1 /\ q.meant /\ q.mode = "cancel"
        BY <1>3, <1>11 DEF Request, RequestShape
    <2>2. flying' = flying \cup {q} /\ Push(Entry("waiting")) /\ asked' = asked + 1
        BY <1>16 DEF CancelUssd
    <2>3. LinesInPlace' /\ UNCHANGED <<force, ticked, reached, ussdOpen, target, paired, keys>>
        BY <1>1, <1>16, <1>21 DEF CancelUssd, LinesInPlace
    <2> HIDE DEF q
    <2> QED
        BY <1>3, <1>12, <2>1, <2>2, <2>3
\* What reaches a module is meant or harmless, and at the right endpoint.
<1>17. ASSUME NEW r \in RequestShape, r.force => r.meant,
              r.mode # "cancel" /\ r.seq # 0 => <<r.mode, r.command>> \in ByHand,
              reached' = reached \/ reached' = Reaches(r), flying' \subseteq flying,
              paired' = paired
       PROVE  MeantOrHarmless' /\ RightEndpoint' /\ reached' \subseteq RequestShape
    <2>1. reached' = reached \/ (Delivered(r) /\ reached' = reached \cup {r})
        BY <1>17 DEF Reaches
    <2>2. RightEndpoint' /\ reached' \subseteq RequestShape
        BY <1>1, <1>11, <1>17, <1>21, <2>1 DEF RightEndpoint
    <2>3. MeantOrHarmless'
        BY <1>1, <1>17, <2>1, DeliveredIsMeant DEF MeantOrHarmless
    <2> QED
        BY <2>2, <2>3
<1>18. ASSUME NEW r \in flying, Answered(r) \/ Lost(r) PROVE ConsoleInv'
    <2>1. /\ flying' = flying \ {r} /\ (reached' = reached \/ reached' = Reaches(r))
          /\ \E state \in {"answered", "lost"} : UpdateEntry(r.seq, state)
          /\ UNCHANGED <<mode, force, input, history, cursor, draft, dropped, asked, target,
                         ticked, paired, keys>>
        BY <1>18 DEF Answered, Lost
    <2>2. ussdOpen' \in BOOLEAN
        BY <1>3, <1>11, <1>18 DEF Answered, Lost, RequestShape, ConsoleMode
    <2>3. PICK state \in {"answered", "lost"} : UpdateEntry(r.seq, state)
        BY <2>1
    <2>4. /\ entries' \in Seq(EntryShape) /\ Len(entries') = Len(entries)
          /\ \A i \in 1..Len(entries) :
               /\ entries'[i].seq = entries[i].seq
               /\ entries'[i].state = IF entries[i].seq = r.seq THEN state ELSE entries[i].state
        BY <1>11, <2>3, UpdateKeepsNumbers
    <2>5. MeantOrHarmless' /\ RightEndpoint' /\ reached' \subseteq RequestShape
        <3>1. /\ r \in RequestShape /\ (r.force => r.meant)
              /\ r.mode # "cancel" /\ r.seq # 0 => <<r.mode, r.command>> \in ByHand
            BY <1>1, <1>11 DEF ForcedIsMeant, RightEndpoint
        <3> QED
            BY <1>17, <2>1, <3>1
    <2>6. ConsoleTypeOK'
        BY <1>1, <2>1, <2>2, <2>4, <2>5 DEF ConsoleTypeOK
    <2>7. LinesInPlace'
        BY <1>1, <1>21, <2>1 DEF LinesInPlace
    <2>8. ForcedIsMeant' /\ Numbered'
        BY <1>1, <2>1, <2>4 DEF ForcedIsMeant, Numbered
    <2>9. ASSUME NEW i \in 1..Len(entries')
          PROVE  entries'[i].state = "waiting" <=> \E s \in flying' : s.seq = entries'[i].seq
        <3>1. i \in 1..Len(entries)
            BY <2>4
        <3>2. entries[i].state = "waiting" <=> \E s \in flying : s.seq = entries[i].seq
            BY <1>1, <3>1 DEF TranscriptHonest
        <3>3. \A s \in flying : s.seq = r.seq => s = r
            BY <1>1 DEF Numbered
        <3> QED
            BY <2>1, <2>4, <3>1, <3>2, <3>3
    <2>10. TranscriptHonest'
        BY <1>1, <2>1, <2>4, <2>9 DEF TranscriptHonest
    <2> QED
        BY <2>5, <2>6, <2>7, <2>8, <2>10 DEF ConsoleInv
<1>19. CASE RunAt
    <2>1. PICK c \in AtLine, forced \in BOOLEAN :
            reached' = Reaches([Request("at", c, forced, NoDialog) EXCEPT !.meant = forced, !.seq = 0])
        BY <1>19 DEF RunAt
    <2> DEFINE r == [Request("at", c, forced, NoDialog) EXCEPT !.meant = forced, !.seq = 0]
    <2>2. /\ r \in RequestShape /\ r.force = forced /\ r.meant = forced /\ r.mode = "at"
          /\ r.command = c /\ r.seq = 0
        BY <1>3, <1>11 DEF Request, RequestShape, ConsoleMode
    <2>3. UNCHANGED <<mode, force, input, ussdOpen, history, cursor, draft, entries, dropped,
                      asked, target, flying, ticked, paired, keys>>
        BY <1>19 DEF RunAt
    <2> HIDE DEF r
    <2>4. MeantOrHarmless' /\ RightEndpoint' /\ reached' \subseteq RequestShape
        BY <1>17, <2>1, <2>2, <2>3 DEF r
    <2>5. ConsoleTypeOK'
        BY <1>1, <2>3, <2>4 DEF ConsoleTypeOK
    <2>6. LinesInPlace' /\ ForcedIsMeant' /\ Numbered' /\ TranscriptHonest'
        BY <1>1, <1>21, <2>3 DEF LinesInPlace, ForcedIsMeant, Numbered, TranscriptHonest
    <2> QED
        BY <2>4, <2>5, <2>6 DEF ConsoleInv
<1>20. CASE UNCHANGED consoleVars
    BY <1>1, <1>20, <1>21 DEF consoleVars, ConsoleInv, ConsoleTypeOK, LinesInPlace, ForcedIsMeant, Numbered,
                       MeantOrHarmless, RightEndpoint, TranscriptHonest
<1> QED
    BY <1>4, <1>5, <1>6, <1>7, <1>8, <1>9, <1>10, <1>14, <1>15, <1>16, <1>18, <1>19, <1>20
    DEF ConsoleNext

\* The inductive invariant of the console, for any lines, codes and modules.
THEOREM ConsoleInvariant == ConsoleSpec => []ConsoleInv
BY ConsoleInitInv, ConsoleStep, PTL DEF ConsoleSpec

\* Nothing that changes a module's state reaches one by accident, unless a blank
\* before its `=' hides it; a line goes to an endpoint the operator chose for it;
\* and the transcript owns up to what it lost (console.rs, at_policy.rs).
THEOREM NothingEverByAccident == ConsoleSpec => []NothingByAccident
<1>1. ConsoleInv => NothingByAccident
    BY DEF ConsoleInv, NothingByAccident
<1> QED
    BY <1>1, ConsoleInvariant, PTL

(***************************************************************************)
(* The rules: what the store holds of a card's plan is what was pushed, or *)
(* cannot be read.                                                         *)
(***************************************************************************)

CardPlan == [text : BOOLEAN, flags : Flags]
RulesTypes ==
    /\ DOMAIN rows \subseteq Sim /\ rows \in [DOMAIN rows -> CardPlan]
    /\ seated \in [Slot -> Sim \cup {NoSim}]
    /\ stock = [m \in Slot |-> stock[m]]
    /\ \A m \in Slot : stock[m].iccid \in Sim \cup {NoSim} /\ stock[m].blind \in BOOLEAN
PlanAsPushed ==
    \A c \in Sim : pushed[c] = IF c \in DOMAIN rows THEN rows[c].flags ELSE Undeclared
\* The inventory names the card a poll last learned of, unless one has lost sight
\* of it.
LastStands == \A m \in Slot : stock[m].blind \/ stock[m].iccid = stock[m].last
RulesIInv == RulesTypes /\ PlanAsPushed /\ LastStands

LEMMA UndeclaredIs == Undeclared \in Flags /\ \A op \in Operation : Undeclared[op] # "no"
    BY DEF Undeclared, Flags, Flag

LEMMA RulesStart == RulesInit => RulesIInv
<1> SUFFICES ASSUME RulesInit PROVE RulesIInv
    OBVIOUS
<1>1. DOMAIN rows = {} /\ rows \in [DOMAIN rows -> CardPlan]
    <2>1. rows = << >>
        BY DEF RulesInit
    <2>2. rows \in Seq(CardPlan) /\ Len(rows) = 0
        BY <2>1
    <2>3. DOMAIN rows = 1..0
        BY <2>2
    <2> QED
        BY <2>2, <2>3
<1>2. RulesTypes
    BY <1>1 DEF RulesInit, RulesTypes
<1>3. LastStands
    BY DEF RulesInit, LastStands
<1> QED
    BY <1>1, <1>2, <1>3 DEF RulesInit, RulesIInv, PlanAsPushed

\* Steps that leave the plans alone.
LEMMA PlansStay ==
    ASSUME RulesIInv, UNCHANGED <<rows, pushed>>, seated' \in [Slot -> Sim \cup {NoSim}],
           stock' = [m \in Slot |-> stock'[m]],
           \A m \in Slot : stock'[m].iccid \in Sim \cup {NoSim} /\ stock'[m].blind \in BOOLEAN,
           \A m \in Slot : stock'[m].blind \/ stock'[m].iccid = stock'[m].last
    PROVE  RulesIInv'
    BY DEF RulesIInv, RulesTypes, PlanAsPushed, LastStands

LEMMA PlansReplaced ==
    ASSUME RulesIInv, NEW cards \in SUBSET Sim, NEW f \in {"undeclared", "no"}, NEW twice \in BOOLEAN,
           UpdateCardPolicies(cards, f, twice)
    PROVE  RulesIInv'
<1> DEFINE flags == [c \in cards |-> [Undeclared EXCEPT !["sms_mo"] = f, !["data"] = "yes"]]
<1>1. \A c \in cards : flags[c] \in Flags
    BY DEF Undeclared, Flags, Flag
<1>2. UNCHANGED <<seated, stock>>
    BY DEF UpdateCardPolicies, ReplaceCardPolicies
<1>3. CASE twice
    <2>1. UNCHANGED <<rows, pushed>>
        BY <1>3 DEF UpdateCardPolicies, ReplaceCardPolicies
    <2> QED
        BY <1>2, <2>1 DEF RulesIInv, RulesTypes, PlanAsPushed, LastStands
<1>4. CASE ~twice
    <2>1. /\ rows' = [c \in cards |-> [text |-> FALSE, flags |-> flags[c]]]
          /\ pushed' = [c \in Sim |-> IF c \in cards THEN flags[c] ELSE Undeclared]
        BY <1>4 DEF UpdateCardPolicies, ReplaceCardPolicies
    <2> HIDE DEF flags
    <2>2. DOMAIN rows' = cards /\ \A c \in cards : rows'[c] \in CardPlan /\ rows'[c].flags = flags[c]
        BY <1>1, <2>1 DEF CardPlan
    <2>3. RulesTypes'
        <3>1. rows' \in [DOMAIN rows' -> CardPlan]
            BY <2>1, <2>2
        <3> QED
            BY <1>2, <2>2, <3>1 DEF RulesIInv, RulesTypes
    <2>4. PlanAsPushed'
        BY <2>1, <2>2 DEF PlanAsPushed, Undeclared
    <2>5. LastStands'
        BY <1>2 DEF RulesIInv, LastStands
    <2> QED
        BY <2>3, <2>4, <2>5 DEF RulesIInv
<1> QED
    BY <1>3, <1>4

LEMMA EditedByHand ==
    ASSUME RulesIInv, NEW card \in Sim, HandEdit(card) PROVE RulesIInv'
<1>1. card \in DOMAIN rows /\ rows' = [rows EXCEPT ![card].text = TRUE] /\ UNCHANGED <<pushed, seated, stock>>
    BY DEF HandEdit
<1>2. rows \in [DOMAIN rows -> CardPlan] /\ DOMAIN rows \subseteq Sim
    BY DEF RulesIInv, RulesTypes
<1>3. DOMAIN rows' = DOMAIN rows
    BY <1>1, <1>2
<1>4. \A c \in DOMAIN rows : rows'[c] \in CardPlan /\ rows'[c].flags = rows[c].flags
    BY <1>1, <1>2 DEF CardPlan
<1>5. rows' \in [DOMAIN rows' -> CardPlan]
    BY <1>1, <1>2, <1>3, <1>4
<1>6. RulesTypes'
    BY <1>1, <1>2, <1>3, <1>5 DEF RulesIInv, RulesTypes
<1>7. PlanAsPushed'
    BY <1>1, <1>3, <1>4 DEF RulesIInv, PlanAsPushed, Undeclared
<1>8. LastStands'
    BY <1>1 DEF RulesIInv, LastStands
<1> QED
    BY <1>6, <1>7, <1>8 DEF RulesIInv

LEMMA RulesPolled ==
    ASSUME RulesIInv, NEW m \in Slot, NEW via \in {"qmi", "at"}, NEW readCard \in BOOLEAN,
           NEW readImsi \in BOOLEAN, NEW readAd \in BOOLEAN, NEW readNumber \in BOOLEAN,
           Poll(m, via, readCard, readImsi, readAd, readNumber)
    PROVE  RulesIInv'
<1>1. seated \in [Slot -> Sim \cup {NoSim}] /\ stock = [s \in Slot |-> stock[s]]
    BY DEF RulesIInv, RulesTypes
<1>2. PICK there \in Sim \cup {NoSim} : there = seated[m]
    BY <1>1
<1>3. PICK told \in BOOLEAN : told = (readCard \/ (via = "qmi" /\ there = NoSim))
    OBVIOUS
<1>4. PICK card : card = EffectiveIccid(via, told, there, stock[m].iccid)
    OBVIOUS
<1>5. PICK entry : /\ stock' = [stock EXCEPT ![m] = entry] /\ entry.iccid = card
                   /\ entry.last = IF told THEN there ELSE stock[m].last
                   /\ entry.blind = (~told /\ (via = "qmi" \/ stock[m].blind))
    <2> DEFINE same == stock[m].numbered = card
               filed == readNumber /\ (via = "qmi" \/ (told /\ there # NoSim))
               home == CASE readImsi -> FromImsi(Home[there], readAd)
                         [] ~readImsi /\ same -> stock[m].home
                         [] OTHER -> <<>>
               numbered == CASE filed -> card
                             [] ~filed /\ same -> stock[m].numbered
                             [] OTHER -> NoSim
               e == [ known |-> TRUE, family |-> Detect(Label[m]), iccid |-> card, home |-> home,
                      numbered |-> numbered, last |-> IF told THEN there ELSE stock[m].last,
                      blind |-> ~told /\ (via = "qmi" \/ stock[m].blind) ]
    <2>1. stock' = [stock EXCEPT ![m] = e]
        BY <1>2, <1>3, <1>4 DEF Poll
    <2> HIDE DEF home, numbered
    <2>2. /\ e.iccid = card /\ e.last = IF told THEN there ELSE stock[m].last
          /\ e.blind = (~told /\ (via = "qmi" \/ stock[m].blind))
        OBVIOUS
    <2> HIDE DEF e
    <2> QED
        BY <2>1, <2>2
<1>6. /\ card \in Sim \cup {NoSim} /\ entry.blind \in BOOLEAN
      /\ entry.blind \/ entry.iccid = entry.last
    <2>1. /\ stock[m].iccid \in Sim \cup {NoSim} /\ stock[m].blind \in BOOLEAN
          /\ stock[m].blind \/ stock[m].iccid = stock[m].last
        BY DEF RulesIInv, RulesTypes, LastStands
    <2>2. CASE told
        BY <1>2, <1>4, <1>5, <2>1, <2>2 DEF EffectiveIccid
    <2>3. CASE ~told /\ via = "qmi"
        BY <1>4, <1>5, <2>1, <2>3 DEF EffectiveIccid
    <2>4. CASE ~told /\ via # "qmi"
        BY <1>4, <1>5, <2>1, <2>4 DEF EffectiveIccid
    <2> QED
        BY <2>2, <2>3, <2>4
<1>7. UNCHANGED <<rows, pushed, seated>>
    BY DEF Poll
<1>8. DOMAIN stock = Slot
    BY <1>1
<1>9. \A s \in Slot : stock'[s] = IF s = m THEN entry ELSE stock[s]
    BY <1>1, <1>5, <1>8
<1>10. stock' = [s \in Slot |-> stock'[s]]
    BY <1>1, <1>5, <1>8
<1>11. \A s \in Slot : stock'[s].iccid \in Sim \cup {NoSim} /\ stock'[s].blind \in BOOLEAN
    BY <1>5, <1>6, <1>9 DEF RulesIInv, RulesTypes
<1>12. \A s \in Slot : stock'[s].blind \/ stock'[s].iccid = stock'[s].last
    BY <1>6, <1>9 DEF RulesIInv, LastStands
<1> QED
    BY <1>1, <1>7, <1>10, <1>11, <1>12, PlansStay

LEMMA RulesStep == RulesIInv /\ [RulesNext]_ruleVars => RulesIInv'
<1> SUFFICES ASSUME RulesIInv, [RulesNext]_ruleVars PROVE RulesIInv'
    OBVIOUS
<1>1. ASSUME NEW d \in Document, NEW intact \in BOOLEAN, UpdateMatrix(d, intact) PROVE RulesIInv'
    <2>1. UNCHANGED <<rows, pushed, seated, stock>>
        BY <1>1 DEF UpdateMatrix
    <2> QED
        BY <2>1 DEF RulesIInv, RulesTypes, PlanAsPushed, LastStands, Undeclared
<1>2. ASSUME NEW c \in Sim \cup {NoSim}, NEW m \in Slot, SwapCard(m, c) PROVE RulesIInv'
    <2>1. UNCHANGED <<rows, pushed, stock>> /\ seated' = [seated EXCEPT ![m] = c]
        BY <1>2 DEF SwapCard
    <2>2. seated' \in [Slot -> Sim \cup {NoSim}]
        BY <2>1 DEF RulesIInv, RulesTypes
    <2> QED
        BY <2>1, <2>2 DEF RulesIInv, RulesTypes, PlanAsPushed, LastStands, Undeclared
<1>3. CASE UNCHANGED ruleVars
    <2>1. UNCHANGED <<rows, pushed, seated, stock>>
        BY <1>3 DEF ruleVars
    <2> QED
        BY <2>1 DEF RulesIInv, RulesTypes, PlanAsPushed, LastStands, Undeclared
<1> QED
    BY <1>1, <1>2, <1>3, PlansReplaced, EditedByHand, RulesPolled DEF RulesNext

(***************************************************************************)
(* What a refusal says.                                                    *)
(***************************************************************************)

Plain == [authority |-> "declared", flags |-> Undeclared]

LEMMA PlainEntitles == ASSUME NEW op \in Operation PROVE Entitled(Plain, op).ok
<1>1. Plain.authority = "declared" /\ Plain.flags[op] # "no"
    BY UndeclaredIs DEF Plain
<1> QED
    BY <1>1 DEF Entitled

LEMMA RefusalIs == ASSUME NEW by PROVE Refuse(by).by = by /\ Refuse(by).ok = FALSE
    BY DEF Refuse

\* What Resolve answers, layer by layer.
LEMMA ResolveIs ==
    ASSUME NEW m, NEW family, NEW carrier, NEW sub, NEW op
    PROVE  LET r == Resolve(m, family, carrier, sub, op)
               support == m.rules[<<family, carrier>>][op]
           IN  \/ Ceiling(family, op) /\ r = Refuse("modem")
               \/ ~Ceiling(family, op) /\ r = Refuse("untested")
                  /\ (<<family, carrier>> \in DOMAIN m.rules => support = "probe")
               \/ /\ ~Ceiling(family, op) /\ <<family, carrier>> \in DOMAIN m.rules
                  /\ support = "unsupported" /\ r = Refuse("carrier")
               \/ /\ ~Ceiling(family, op) /\ <<family, carrier>> \in DOMAIN m.rules
                  /\ support \notin {"unsupported", "probe"} /\ r = Entitled(sub, op)
    BY DEF Resolve, Measured, CarrierRefuses

LEMMA EntitledIs ==
    ASSUME NEW sub, NEW op
    PROVE  \/ sub.authority = "unreadable" /\ Entitled(sub, op) = Refuse("subscription_unreadable")
           \/ /\ sub.authority # "unreadable" /\ sub.flags[op] = "no"
              /\ Entitled(sub, op) = Refuse("subscription")
           \/ /\ sub.authority # "unreadable" /\ sub.flags[op] # "no"
              /\ Entitled(sub, op) = [ok |-> TRUE, by |-> "none"]
    BY DEF Entitled

\* A refusal of the plan goes away with the plan, one for want of a measurement
\* with a measurement, one of the hardware with neither.
LEMMA FixOfPlan ==
    ASSUME NEW m, NEW family, NEW carrier, NEW sub, NEW op \in Operation,
           Resolve(m, family, carrier, sub, op).by \in {"subscription", "subscription_unreadable"}
    PROVE  Resolve(m, family, carrier, Plain, op).ok
<1>1. /\ ~Ceiling(family, op) /\ <<family, carrier>> \in DOMAIN m.rules
      /\ m.rules[<<family, carrier>>][op] \notin {"unsupported", "probe"}
    <2>1. PICK r : r = Resolve(m, family, carrier, sub, op)
        OBVIOUS
    <2>2. r # Refuse("modem") /\ r # Refuse("untested") /\ r # Refuse("carrier")
        BY <2>1 DEF Refuse
    <2> QED
        BY <2>1, <2>2, ResolveIs
<1>2. Resolve(m, family, carrier, Plain, op) = Entitled(Plain, op)
    BY <1>1 DEF Resolve, Measured, CarrierRefuses
<1> QED
    BY <1>2, PlainEntitles

LEMMA RefusalWithoutCeiling ==
    ASSUME NEW m, NEW family, NEW carrier, NEW sub, NEW op
    PROVE  /\ Resolve(m, family, carrier, sub, op).by = "modem" => Ceiling(family, op)
           /\ Resolve(m, family, carrier, sub, op).by = "untested" => ~Ceiling(family, op)
<1>1. Entitled(sub, op).by \in {"subscription_unreadable", "subscription", "none"}
    BY EntitledIs DEF Refuse
<1>2. PICK r : r = Resolve(m, family, carrier, sub, op)
    OBVIOUS
<1>3. \/ r.by = "modem" /\ Ceiling(family, op)
      \/ r.by = "untested" /\ ~Ceiling(family, op)
      \/ r.by = "carrier"
      \/ r = Entitled(sub, op)
    <2>1. \/ r = Refuse("modem") /\ Ceiling(family, op)
          \/ r = Refuse("untested") /\ ~Ceiling(family, op)
          \/ r = Refuse("carrier")
          \/ r = Entitled(sub, op)
        BY <1>2 DEF Resolve, Measured, CarrierRefuses
    <2> QED
        BY <2>1 DEF Refuse
<1> QED
    BY <1>1, <1>2, <1>3

\* A pair that was measured is not refused for want of a measurement.
LEMMA MeasuredIsAllowed ==
    ASSUME NEW t, "rules" \in DOMAIN t, NEW family, NEW carrier, NEW op \in Operation, NEW u,
           u = WithMeasurement(t, <<family, carrier>>)
    PROVE  /\ ~Ceiling(family, op) => Resolve(u, family, carrier, Plain, op).ok
           /\ Ceiling(family, op) => ~Resolve(u, family, carrier, Plain, op).ok
<1>1. PICK k : k = <<family, carrier>>
    OBVIOUS
<1>2. PICK r : r = t.rules
    OBVIOUS
<1> DEFINE c == [o \in Operation |-> "cellular"]
           all == [x \in {k} \cup DOMAIN r |-> IF x = k THEN c ELSE r[x]]
<1>3. u.rules = all
    BY <1>1, <1>2 DEF WithMeasurement
<1>4. k \in DOMAIN u.rules /\ u.rules[k] = c
    BY <1>3
<1>5. u.rules[k][op] = "cellular"
    BY <1>4
<1>6. Ceiling(family, op) => ~Resolve(u, family, carrier, Plain, op).ok
    BY RefusalIs DEF Resolve
<1>7. ASSUME ~Ceiling(family, op) PROVE Resolve(u, family, carrier, Plain, op).ok
    <2>1. Resolve(u, family, carrier, Plain, op) = Entitled(Plain, op)
        BY <1>1, <1>4, <1>5, <1>7 DEF Resolve, Measured, CarrierRefuses
    <2> QED
        BY <2>1, PlainEntitles
<1> QED
    BY <1>6, <1>7

LEMMA RefusalsNameTheFix == RefusalNamesFix
<1> SUFFICES ASSUME NEW m \in Slot, NEW op \in Operation, stock[m].known
             PROVE LET inv == stock[m]
                       carrier == CarrierProfile(inv.home)
                       plain == [authority |-> "declared", flags |-> Undeclared]
                       Under(sub) == Resolve(matrix, inv.family, carrier, sub, op)
                       Tested == {FromDocument(d) : d \in {d \in Document : Accepted(d)}}
                       AnyTest(t) ==
                         Resolve(WithMeasurement(t, <<inv.family, carrier>>), inv.family, carrier, plain, op)
                   IN CASE Gate(m, op).by \in {"subscription", "subscription_unreadable"} -> Under(plain).ok
                        [] Gate(m, op).by = "untested" -> \A t \in Tested : AnyTest(t).ok
                        [] Gate(m, op).by = "modem" -> \A t \in Tested : ~AnyTest(t).ok
                        [] OTHER -> TRUE
    BY DEF RefusalNamesFix
<1> DEFINE inv == stock[m]
           carrier == CarrierProfile(inv.home)
           Under(sub) == Resolve(matrix, inv.family, carrier, sub, op)
           Tested == {FromDocument(d) : d \in {d \in Document : Accepted(d)}}
           AnyTest(t) ==
                         Resolve(WithMeasurement(t, <<inv.family, carrier>>), inv.family, carrier, Plain, op)
<1>1. PICK sub : Gate(m, op) = Under(sub)
    BY DEF Gate
<1>2. PICK b : b = Gate(m, op).by
    OBVIOUS
<1>3. b \in {"subscription", "subscription_unreadable"} => Under(Plain).ok
    BY <1>1, <1>2, FixOfPlan
<1>4. ASSUME NEW t \in Tested
      PROVE  (b = "untested" => AnyTest(t).ok) /\ (b = "modem" => ~AnyTest(t).ok)
    <2>1. "rules" \in DOMAIN t
        <3>1. PICK d \in Document : t = FromDocument(d)
            OBVIOUS
        <3> QED
            BY <3>1 DEF FromDocument
    <2>2. (b = "untested" => ~Ceiling(inv.family, op)) /\ (b = "modem" => Ceiling(inv.family, op))
        BY <1>1, <1>2, RefusalWithoutCeiling
    <2> QED
        BY <2>1, <2>2, MeasuredIsAllowed
<1> HIDE DEF Under, Tested, AnyTest
<1>5. CASE b \in {"subscription", "subscription_unreadable"}
    BY <1>2, <1>3, <1>5 DEF Under, Plain
<1>6. CASE b = "untested"
    BY <1>2, <1>4, <1>6 DEF Tested, AnyTest, Plain
<1>7. CASE b = "modem"
    BY <1>2, <1>4, <1>7 DEF Tested, AnyTest, Plain
<1>8. CASE b \notin {"subscription", "subscription_unreadable", "untested", "modem"}
    BY <1>2, <1>8
<1> QED
    BY <1>5, <1>6, <1>7, <1>8

(***************************************************************************)
(* What the plan withholds, what a plan for a message may say, and what a  *)
(* verdict rests on.                                                       *)
(***************************************************************************)

LEMMA AllowedIsEntitled ==
    ASSUME NEW m, NEW family, NEW carrier, NEW sub, NEW op, Resolve(m, family, carrier, sub, op).ok
    PROVE  sub.authority # "unreadable" /\ sub.flags[op] # "no"
<1>1. PICK r : r = Resolve(m, family, carrier, sub, op)
    OBVIOUS
<1>2. r # Refuse("modem") /\ r # Refuse("untested") /\ r # Refuse("carrier")
    BY <1>1, RefusalIs
<1>3. r = Entitled(sub, op)
    BY <1>1, <1>2 DEF Resolve, Measured, CarrierRefuses
<1> QED
    BY <1>1, <1>3, EntitledIs DEF Refuse

LEMMA WithheldIsRefused == RulesIInv => WithheldStays
<1> SUFFICES ASSUME RulesIInv, NEW m \in Slot, NEW op \in Operation,
                    Gate(m, op).ok \/ PanelGate(m, op, FALSE).ok, stock[m].last # NoSim,
                    ~stock[m].blind
             PROVE  pushed[stock[m].last][op] # "no"
    BY DEF WithheldStays
<1>1. Gate(m, op).ok
    BY DEF PanelGate
<1>2. PICK card \in Sim : card = stock[m].iccid /\ card # NoSim /\ card = stock[m].last
    BY DEF RulesIInv, RulesTypes, LastStands
<1>3. PICK sub : sub = SubscriptionOf(card)
    OBVIOUS
<1>4. stock[m].known
    BY <1>1, RefusalIs DEF Gate
<1>5. Gate(m, op) = Resolve(matrix, stock[m].family, CarrierProfile(stock[m].home), sub, op)
    BY <1>2, <1>3, <1>4 DEF Gate
<1>6. sub.authority # "unreadable" /\ sub.flags[op] # "no"
    BY <1>1, <1>5, AllowedIsEntitled
<1>7. pushed[card] = IF card \in DOMAIN rows THEN rows[card].flags ELSE Undeclared
    BY DEF RulesIInv, PlanAsPushed
<1>8. CASE card \notin DOMAIN rows
    BY <1>2, <1>7, <1>8, UndeclaredIs
<1>9. CASE card \in DOMAIN rows
    <2>1. sub = IF rows[card].text
                THEN [authority |-> "unreadable", flags |-> Undeclared]
                ELSE [authority |-> "declared", flags |-> rows[card].flags]
        BY <1>2, <1>3, <1>9 DEF SubscriptionOf
    <2>2. sub.flags = rows[card].flags
        BY <1>6, <2>1
    <2> QED
        BY <1>2, <1>6, <1>7, <1>9, <2>2
<1> QED
    BY <1>8, <1>9

\* A plan says what it may: nowhere for what is ruled out, and no second bearer
\* without a first one that is another.
SoundPlan(p) == p.fallback # NoBearer => p.primary \notin {p.fallback, NoBearer}

LEMMA ToIs == ASSUME NEW a, NEW b PROVE To(a, b).primary = a /\ To(a, b).fallback = b
    BY DEF To

LEMMA OnlyOne == ASSUME NEW a PROVE SoundPlan(To(a, NoBearer))
    BY ToIs DEF SoundPlan

LEMMA TwoOthers == ASSUME NEW a, NEW b, a # b, a # NoBearer PROVE SoundPlan(To(a, b))
    BY ToIs DEF SoundPlan

LEMMA EarliestIs ==
    ASSUME NEW at, at \subseteq 1..3, at # {} PROVE Earliest(at) \in at
<1>1. \E i \in at : \A j \in at : i <= j
    <2>1. CASE 1 \in at
        BY <2>1
    <2>2. CASE 1 \notin at /\ 2 \in at
        BY <2>2
    <2>3. CASE 1 \notin at /\ 2 \notin at
        <3>1. \A j \in at : j \in Nat /\ j = 3
            BY <2>3
        <3>2. PICK i \in at : TRUE
            OBVIOUS
        <3>3. \A j \in at : i <= j
            BY <3>1, <3>2
        <3> QED
            BY <3>2, <3>3
    <2> QED
        BY <2>1, <2>2, <2>3
<1> QED
    BY <1>1 DEF Earliest

LEMMA ProbeIsSound ==
    ASSUME NEW up PROVE SoundPlan(ProbeInOrder(<<"sgs", "ims", "cellular">>, up))
<1>1. PICK p : p = <<"sgs", "ims", "cellular">>
    OBVIOUS
<1>2. DOMAIN p = 1..3 /\ p[1] = "sgs" /\ p[2] = "ims" /\ p[3] = "cellular"
    BY <1>1
<1>3. ASSUME NEW i \in 1..3, NEW j \in 1..3, i # j PROVE p[i] # p[j] /\ p[i] # NoBearer
    BY <1>2, <1>3 DEF NoBearer
<1>4. PICK avail : avail = {i \in DOMAIN p : p[i] \in up}
    OBVIOUS
<1>5. PICK second : second = avail \ {Earliest(avail)}
    OBVIOUS
<1>6. avail \subseteq 1..3 /\ second \subseteq 1..3
    BY <1>2, <1>4, <1>5
<1>7. CASE avail = {} \/ second = {}
    <2>1. PICK a : ProbeInOrder(p, up) = To(a, NoBearer)
        BY <1>4, <1>5, <1>7 DEF ProbeInOrder, Unavailable
    <2> QED
        BY <1>1, <2>1, OnlyOne
<1>8. CASE avail # {} /\ second # {}
    <2>1. PICK i \in avail, j \in second : i = Earliest(avail) /\ j = Earliest(second)
        BY <1>6, <1>8, EarliestIs
    <2>2. i # j /\ i \in 1..3 /\ j \in 1..3
        BY <1>5, <1>6, <2>1
    <2>3. ProbeInOrder(p, up) = To(p[i], p[j])
        BY <1>4, <1>5, <1>8, <2>1 DEF ProbeInOrder
    <2> QED
        BY <1>1, <1>3, <2>2, <2>3, TwoOthers
<1> QED
    BY <1>7, <1>8

LEMMA LabIsSound == ASSUME NEW mo, NEW up PROVE SoundPlan(LabPlan(mo, up))
<1>1. PICK x : x = ProbeInOrder(<<"sgs", "ims", "cellular">>, up) /\ SoundPlan(x)
    BY ProbeIsSound
<1>2. LabPlan(mo, up) \in {Unavailable, x, To(If(mo, up), NoBearer)}
    BY <1>1 DEF LabPlan
<1> QED
    BY <1>1, <1>2, OnlyOne DEF Unavailable

LEMMA CnIsOne == ASSUME NEW mo, NEW up PROVE CnPlan(mo, up).fallback = NoBearer
<1>1. \E a : CnPlan(mo, up) = To(a, NoBearer)
    BY DEF CnPlan, Unavailable
<1> QED
    BY <1>1, ToIs

LEMMA IfIs == ASSUME NEW b, NEW up PROVE If(b, up) \in {b, NoBearer}
    BY DEF If

LEMMA IntlIsSound == ASSUME NEW mo, NEW up PROVE SoundPlan(IntlPlan(mo, up))
<1>1. SoundPlan(IntlProbe(up))
    <2>1. IntlProbe(up) \in {To("cellular", "ims"), To("ims", "cellular"), To("cellular", NoBearer)}
        BY IfIs DEF IntlProbe
    <2>2. "cellular" # NoBearer /\ "ims" # NoBearer
        BY DEF NoBearer
    <2> QED
        BY <2>1, <2>2, OnlyOne, TwoOthers
<1>2. CASE mo = "unsupported"
    BY <1>2, OnlyOne DEF IntlPlan, Unavailable, Bearer
<1>3. CASE mo # "unsupported" /\ mo \in Bearer /\ mo \in up
    <2>1. PICK b : IntlPlan(mo, up) = To(mo, b) /\ (b = NoBearer \/ b # mo)
        <3>1. CASE mo = "cellular"
            <4>1. IntlPlan(mo, up) = To(mo, If("ims", up))
                BY <1>3, <3>1 DEF IntlPlan
            <4> QED
                BY <3>1, <4>1, IfIs
        <3>2. CASE mo = "ims"
            <4>1. IntlPlan(mo, up) = To(mo, If("cellular", up))
                BY <1>3, <3>2 DEF IntlPlan
            <4> QED
                BY <3>2, <4>1, IfIs
        <3>3. CASE mo \notin {"cellular", "ims"}
            BY <1>3, <3>3 DEF IntlPlan
        <3> QED
            BY <3>1, <3>2, <3>3
    <2>2. mo # NoBearer
        BY <1>3 DEF Bearer, NoBearer
    <2> QED
        BY <2>1, <2>2, OnlyOne, TwoOthers
<1>4. CASE mo # "unsupported" /\ ~(mo \in Bearer /\ mo \in up)
    BY <1>1, <1>4 DEF IntlPlan
<1> QED
    BY <1>2, <1>3, <1>4

\* Nothing is planned for what the matrix rules out.
LEMMA VetoIsKept ==
    ASSUME NEW up
    PROVE  /\ CnPlan("unsupported", up) = Unavailable
           /\ LabPlan("unsupported", up) = Unavailable
           /\ IntlPlan("unsupported", up) = Unavailable
    BY DEF CnPlan, LabPlan, IntlPlan, Bearer

LEMMA PlansKeepTheVeto == PlanKeepsVeto
<1> SUFFICES ASSUME NEW m \in Slot, NEW v \in {"cn", "intl", "lab", "other"}, NEW up \in SUBSET Bearer
             PROVE  LET mo == Query(matrix, stock[m].family, CarrierProfile(stock[m].home)).capability["sms_mo"]
                        p == PlanSend(m, v, up)
                    IN  /\ mo = "unsupported" => p.primary = NoBearer
                        /\ v = "cn" => p.fallback = NoBearer
                        /\ p.fallback # NoBearer => p.primary \notin {p.fallback, NoBearer}
    BY DEF PlanKeepsVeto
<1>1. PICK mo : mo = Query(matrix, stock[m].family, CarrierProfile(stock[m].home)).capability["sms_mo"]
    OBVIOUS
<1>2. PICK p : p = PlanSend(m, v, up)
    OBVIOUS
<1>3. p = PlanOf(v, mo, up)
    BY <1>1, <1>2 DEF PlanSend
<1>4. \/ v = "cn" /\ p = CnPlan(mo, up)
      \/ v = "lab" /\ p = LabPlan(mo, up)
      \/ v \notin {"cn", "lab"} /\ p = IntlPlan(mo, up)
    BY <1>3 DEF PlanOf
<1>5. mo = "unsupported" => p = Unavailable
    BY <1>4, VetoIsKept
<1>6. Unavailable.primary = NoBearer
    BY ToIs DEF Unavailable
<1>7. (v = "cn" => p.fallback = NoBearer) /\ SoundPlan(p)
    BY <1>4, CnIsOne, LabIsSound, IntlIsSound DEF SoundPlan
<1> QED
    BY <1>1, <1>2, <1>5, <1>6, <1>7 DEF SoundPlan

\* A look at the home network after the first gates is a look at its carrier.
LEMMA GatesSeeTheCarrier ==
    ASSUME NEW m, NEW usb, NEW family, NEW h, NEW g, h # <<>>, g # <<>>,
           CarrierProfile(h) = CarrierProfile(g)
    PROVE  BindGates(m, usb, family, h) = BindGates(m, usb, family, g)
    BY DEF BindGates

\* How many digits the MNC has makes no difference to the carrier's profile.
LEMMA DigitsDoNotMatter ==
    ASSUME NEW c \in Sim, NEW adRead \in BOOLEAN
    PROVE  /\ FromImsi(Home[c], adRead) # <<>>
           /\ CarrierProfile(FromImsi(Home[c], adRead)) = CarrierProfile(FromImsi(Home[c], TRUE))
<1>1. PICK mcc, n2, n3, ad : mcc = Home[c].mcc /\ n2 = Home[c].mnc2 /\ n3 = Home[c].mnc3 /\ ad = Home[c].ef_ad
    OBVIOUS
<1>2. mcc = 460 => ad # 3
    BY <1>1, NumberingAssumption
<1>3. PICK x : x = FromImsi(Home[c], adRead)
    OBVIOUS
<1>4. PICK y : y = FromImsi(Home[c], TRUE)
    OBVIOUS
<1>5. x = <<mcc, n2>> \/ (x = <<mcc, n3>> /\ adRead /\ ad = 3)
    BY <1>1, <1>3 DEF FromImsi, MncDigitsOrFallback
<1>6. (y = <<mcc, n2>> /\ ad # 3) \/ (y = <<mcc, n3>> /\ ad = 3)
    BY <1>1, <1>4 DEF FromImsi, MncDigitsOrFallback
<1>7. x # <<>> /\ x[1] = mcc /\ y[1] = mcc
    BY <1>5, <1>6
<1>8. CASE mcc = 460
    BY <1>2, <1>3, <1>4, <1>5, <1>6, <1>7, <1>8
<1>9. CASE mcc # 460
    <2>1. CarrierProfile(x) = "Generic-International" /\ CarrierProfile(y) = "Generic-International"
        BY <1>7, <1>9 DEF CarrierProfile
    <2> QED
        BY <1>3, <1>4, <1>7, <2>1
<1> QED
    BY <1>8, <1>9

LEMMA VerdictsAreFinal == RulesIInv => VerdictIsFinal
<1> SUFFICES ASSUME RulesIInv, NEW m \in Slot, NEW homeRead \in BOOLEAN, NEW adRead \in BOOLEAN,
                    seated[m] # NoSim,
                    BindGates(matrix, Usb[m], Detect(Label[m]),
                              IF homeRead THEN FromImsi(Home[seated[m]], adRead) ELSE <<>>) \in Verdict
             PROVE  BindGates(matrix, Usb[m], Detect(Label[m]), FromImsi(Home[seated[m]], TRUE)) \in Verdict
    BY DEF VerdictIsFinal
<1>0. PICK c \in Sim : c = seated[m]
    BY DEF RulesIInv, RulesTypes
<1>1. PICK usb, family, home : usb = Usb[m] /\ family = Detect(Label[m]) /\ home = FromImsi(Home[c], TRUE)
    OBVIOUS
<1>2. CASE homeRead
    <2>1. PICK h : h = FromImsi(Home[c], adRead) /\ BindGates(matrix, usb, family, h) \in Verdict
        BY <1>0, <1>1, <1>2
    <2>2. h # <<>> /\ home # <<>> /\ CarrierProfile(h) = CarrierProfile(home)
        BY <1>1, <2>1, DigitsDoNotMatter
    <2>3. BindGates(matrix, usb, family, h) = BindGates(matrix, usb, family, home)
        BY <2>2, GatesSeeTheCarrier
    <2> QED
        BY <1>0, <1>1, <2>1, <2>3
<1>3. CASE ~homeRead
    <2>1. PICK verdict \in Verdict : verdict = BindGates(matrix, usb, family, <<>>)
        BY <1>1, <1>3
    <2>2. home # <<>>
        BY <1>1, DigitsDoNotMatter
    <2>3. verdict # "unreadable_usb_identity" /\ verdict # "not_identified_yet"
        BY DEF Verdict
    <2>4. CASE ~Drives(usb)
        BY <1>0, <1>1, <2>1, <2>3, <2>4 DEF BindGates, Verdict
    <2>5. CASE Drives(usb)
        <3>1. DeviceGate(matrix, usb) \notin {"not_stated", "enabled"} /\ usb # ""
            BY <2>1, <2>3, <2>5 DEF BindGates
        <3>2. BindGates(matrix, usb, family, home) = "not_in_catalogue"
            BY <2>5, <3>1 DEF BindGates
        <3> QED
            BY <1>0, <1>1, <3>2 DEF Verdict
    <2> QED
        BY <2>4, <2>5
<1> QED
    BY <1>2, <1>3

LEMMA RulesAnswerRight == RulesIInv => RulesInv
    BY RefusalsNameTheFix, WithheldIsRefused, PlansKeepTheVeto, VerdictsAreFinal DEF RulesInv

\* An answer of the rules can be acted on, whatever documents and plans are pushed
\* or edited by hand, whichever cards are swapped, and whatever a poll could and
\* could not read, with the one exception WithheldStays names: a failed QMI read of
\* a card in place (resolve, operating_context, plan, bind_gates).
THEOREM RulesInvariant == RulesSpec => []RulesInv
    BY RulesStart, RulesStep, RulesAnswerRight, PTL DEF RulesSpec

(***************************************************************************)
(* The card's authentication.  First the bytes: what the card puts         *)
(* together, classify_body takes apart, for every length of the fields.    *)
(***************************************************************************)

Bytes == Seq(Nat)
Cat(u, v) == u \o v
Tag(t) == <<t>>
Mark(n) == <<129, n>>
ShortHead(t, n) == <<t, n>>
LongHead(t, n) == <<t, 129, n>>
Taken(f, r) == [ok |-> TRUE, value |-> f, rest |-> r]
Success(v) == Result("success", v)

LEMMA AkaNumbers ==
    /\ ResMin \in Nat /\ ResMax \in Nat /\ KeyBytes \in Nat /\ KcBytes \in Nat /\ AutsBytes \in Nat
    /\ 0 < ResMin /\ ResMin <= ResMax /\ ResMax < 2 * KeyBytes + 4
    /\ 0 < KcBytes /\ 0 < AutsBytes /\ AutsBytes < 128
    /\ ResMax + 2 * KeyBytes + KcBytes + 4 < 128
<1>1. {ResMin, ResMax, KeyBytes, KcBytes, AutsBytes, MaxAuths, MaxCardEvents} \subseteq Nat
    BY AkaAssumption
<1> QED
    BY <1>1, AkaAssumption

LEMMA CatIs ==
    ASSUME NEW u \in Bytes, NEW v \in Bytes
    PROVE  /\ Cat(u, v) \in Bytes /\ Len(Cat(u, v)) = Len(u) + Len(v)
           /\ Len(u) \in Nat /\ Len(v) \in Nat
           /\ \A i \in 1..Len(u) + Len(v) :
                 Cat(u, v)[i] = IF i <= Len(u) THEN u[i] ELSE v[i - Len(u)]
    BY ConcatProperties DEF Bytes, Cat

LEMMA CatLen ==
    ASSUME NEW u \in Bytes, NEW v \in Bytes
    PROVE  /\ Cat(u, v) \in Bytes /\ Len(Cat(u, v)) = Len(u) + Len(v)
           /\ Len(u) \in Nat /\ Len(v) \in Nat
    BY CatIs

LEMMA CatFront ==
    ASSUME NEW u \in Bytes, NEW v \in Bytes, NEW i \in 1..Len(u)
    PROVE  Cat(u, v)[i] = u[i]
<1>1. Len(u) \in Nat /\ Len(v) \in Nat
    BY CatLen
<1>2. i \in 1..Len(u) + Len(v) /\ i <= Len(u)
    BY <1>1
<1> QED
    BY <1>2, CatIs

LEMMA CatBack ==
    ASSUME NEW u \in Bytes, NEW v \in Bytes, NEW i \in 1..Len(v)
    PROVE  Cat(u, v)[Len(u) + i] = v[i]
<1>1. Len(u) \in Nat /\ Len(v) \in Nat
    BY CatLen
<1>2. PICK j : j = Len(u) + i
    OBVIOUS
<1>3. j \in 1..Len(u) + Len(v) /\ ~(j <= Len(u)) /\ j - Len(u) = i
    BY <1>1, <1>2
<1>4. Cat(u, v)[j] = v[j - Len(u)]
    BY <1>3, CatIs
<1> QED
    BY <1>2, <1>3, <1>4

LEMMA BytesAt ==
    ASSUME NEW u \in Bytes
    PROVE  Len(u) \in Nat /\ \A i \in 1..Len(u) : u[i] \in Nat
    BY DEF Bytes

LEMMA SameBytes ==
    ASSUME NEW u \in Bytes, NEW v \in Bytes, Len(u) = Len(v), \A i \in 1..Len(u) : u[i] = v[i]
    PROVE  u = v
    BY SeqEqual DEF Bytes

LEMMA Regroup ==
    ASSUME NEW u \in Bytes, NEW v \in Bytes, NEW w \in Bytes
    PROVE  Cat(Cat(u, v), w) = Cat(u, Cat(v, w))
<1> DEFINE x == Cat(u, v)
           y == Cat(v, w)
           s == Cat(x, w)
           t == Cat(u, y)
<1>1. x \in Bytes /\ Len(x) = Len(u) + Len(v)
      /\ \A i \in 1..Len(u) + Len(v) : x[i] = IF i <= Len(u) THEN u[i] ELSE v[i - Len(u)]
    BY CatIs
<1>2. y \in Bytes /\ Len(y) = Len(v) + Len(w)
      /\ \A i \in 1..Len(v) + Len(w) : y[i] = IF i <= Len(v) THEN v[i] ELSE w[i - Len(v)]
    BY CatIs
<1> HIDE DEF x, y
<1>3. s \in Bytes /\ Len(s) = Len(x) + Len(w)
      /\ \A i \in 1..Len(x) + Len(w) : s[i] = IF i <= Len(x) THEN x[i] ELSE w[i - Len(x)]
    BY <1>1, CatIs
<1>4. t \in Bytes /\ Len(t) = Len(u) + Len(y)
      /\ \A i \in 1..Len(u) + Len(y) : t[i] = IF i <= Len(u) THEN u[i] ELSE y[i - Len(u)]
    BY <1>2, CatIs
<1> HIDE DEF s, t
<1>5. PICK a \in Nat, b \in Nat, c \in Nat : a = Len(u) /\ b = Len(v) /\ c = Len(w)
    BY BytesAt
<1>6. Len(s) = a + b + c /\ Len(t) = a + b + c
    BY <1>1, <1>2, <1>3, <1>4, <1>5
<1>7. ASSUME NEW i \in 1..a + b + c PROVE s[i] = t[i]
    <2>1. CASE i <= a
        BY <1>1, <1>2, <1>3, <1>4, <1>5, <2>1
    <2>2. CASE i > a /\ i <= a + b
        <3>1. s[i] = x[i] /\ x[i] = v[i - a]
            BY <1>1, <1>3, <1>5, <2>2
        <3>2. t[i] = y[i - a]
            BY <1>2, <1>4, <1>5, <2>2
        <3>3. PICK j : j = i - a
            OBVIOUS
        <3>4. j \in 1..b + c /\ j <= b
            BY <1>5, <2>2, <3>3
        <3>5. y[j] = v[j]
            BY <1>2, <1>5, <3>4
        <3> QED
            BY <3>1, <3>2, <3>3, <3>4, <3>5
    <2>3. CASE i > a + b
        <3>1. s[i] = w[i - (a + b)]
            BY <1>1, <1>3, <1>5, <2>3
        <3>2. t[i] = y[i - a]
            BY <1>2, <1>4, <1>5, <2>3
        <3>3. PICK j : j = i - a
            OBVIOUS
        <3>4. j \in 1..b + c /\ ~(j <= b) /\ j - b = i - (a + b)
            BY <1>5, <2>3, <3>3
        <3>5. y[j] = w[j - b]
            BY <1>2, <1>5, <3>4
        <3> QED
            BY <3>1, <3>2, <3>3, <3>4, <3>5
    <2> QED
        BY <1>5, <2>1, <2>2, <2>3
<1>8. s = t
    BY <1>3, <1>4, <1>6, <1>7, SameBytes
<1> QED
    BY <1>8 DEF s, t, x, y

LEMMA EmptyIs == <<>> \in Bytes /\ IsPadding(<<>>)
    BY DEF Bytes, IsPadding

LEMMA NothingBefore ==
    ASSUME NEW u \in Bytes
    PROVE  <<>> \in Bytes /\ IsPadding(<<>>) /\ Cat(<<>>, u) = u /\ Cat(u, <<>>) = u
    BY ConcatEmptySeq DEF Bytes, Cat, IsPadding

LEMMA HeadsAre ==
    ASSUME NEW t \in Nat, NEW n \in Nat
    PROVE  /\ Tag(t) \in Bytes /\ Len(Tag(t)) = 1 /\ Tag(t)[1] = t
           /\ Mark(n) \in Bytes /\ Len(Mark(n)) = 2 /\ Mark(n)[1] = 129 /\ Mark(n)[2] = n
           /\ ShortHead(t, n) \in Bytes /\ Len(ShortHead(t, n)) = 2
           /\ ShortHead(t, n)[1] = t /\ ShortHead(t, n)[2] = n
           /\ LongHead(t, n) \in Bytes /\ Len(LongHead(t, n)) = 3
           /\ LongHead(t, n)[1] = t /\ LongHead(t, n)[2] = 129 /\ LongHead(t, n)[3] = n
    BY DEF Bytes, Tag, Mark, ShortHead, LongHead

LEMMA HeadsJoined ==
    ASSUME NEW t \in Nat, NEW n \in Nat
    PROVE  Cat(Tag(t), Tag(n)) = ShortHead(t, n) /\ Cat(Tag(t), Mark(n)) = LongHead(t, n)
<1>1. Cat(Tag(t), Tag(n)) = ShortHead(t, n)
    <2> DEFINE a == <<t>> \o <<n>>
               c == <<t, n>>
    <2>1. a \in Bytes /\ c \in Bytes /\ Len(a) = 2 /\ Len(c) = 2
        BY DEF Bytes
    <2>2. a[1] = t /\ a[2] = n /\ c[1] = t /\ c[2] = n
        OBVIOUS
    <2> HIDE DEF a, c
    <2>3. \A i \in 1..2 : a[i] = c[i]
        BY <2>2
    <2>4. a = c
        BY <2>1, <2>3, SameBytes
    <2> QED
        BY <2>4 DEF a, c, Cat, Tag, ShortHead
<1>2. Cat(Tag(t), Mark(n)) = LongHead(t, n)
    <2> DEFINE a == <<t>> \o <<129, n>>
               c == <<t, 129, n>>
    <2>1. a \in Bytes /\ c \in Bytes /\ Len(a) = 3 /\ Len(c) = 3
        BY DEF Bytes
    <2>2. a[1] = t /\ a[2] = 129 /\ a[3] = n /\ c[1] = t /\ c[2] = 129 /\ c[3] = n
        OBVIOUS
    <2> HIDE DEF a, c
    <2>3. \A i \in 1..3 : a[i] = c[i]
        BY <2>2
    <2>4. a = c
        BY <2>1, <2>3, SameBytes
    <2> QED
        BY <2>4 DEF a, c, Cat, Tag, Mark, LongHead
<1> QED
    BY <1>1, <1>2

LEMMA PartIs ==
    ASSUME NEW s \in Bytes, NEW a \in Nat, NEW n \in Nat, a + n <= Len(s)
    PROVE  /\ SubSeq(s, a + 1, a + n) \in Bytes /\ Len(SubSeq(s, a + 1, a + n)) = n
           /\ \A i \in 1..n : SubSeq(s, a + 1, a + n)[i] = s[a + i]
<1>1. \A i \in a + 1 .. a + n : s[i] \in Nat
    BY BytesAt
<1>2. /\ SubSeq(s, a + 1, a + n) \in Seq(Nat)
      /\ Len(SubSeq(s, a + 1, a + n)) = IF a + 1 <= a + n THEN a + n - (a + 1) + 1 ELSE 0
      /\ \A i \in 1 .. a + n - (a + 1) + 1 : SubSeq(s, a + 1, a + n)[i] = s[a + 1 + i - 1]
    BY <1>1, SubSeqProperties
<1> QED
    BY <1>2 DEF Bytes

\* What is taken from between two parts is what was put there.
LEMMA TakeJoined ==
    ASSUME NEW h \in Bytes, NEW u \in Bytes, NEW v \in Bytes
    PROVE  SubSeq(Cat(h, Cat(u, v)), Len(h) + 1, Len(h) + Len(u)) = u
<1>1. PICK x \in Bytes : x = Cat(u, v)
    BY CatLen
<1>2. PICK s \in Bytes : s = Cat(h, x)
    BY CatLen
<1>3. /\ Len(h) \in Nat /\ Len(u) \in Nat /\ Len(v) \in Nat
      /\ Len(x) = Len(u) + Len(v) /\ Len(s) = Len(h) + Len(x)
    BY <1>1, <1>2, CatLen
<1>4. ASSUME NEW i \in 1..Len(u) PROVE s[Len(h) + i] = u[i]
    <2>1. i \in 1..Len(x)
        BY <1>3
    <2> QED
        BY <1>1, <1>2, <2>1, CatFront, CatBack
<1>5. PICK d : d = SubSeq(s, Len(h) + 1, Len(h) + Len(u))
    OBVIOUS
<1>6. Len(h) + Len(u) <= Len(s)
    BY <1>3
<1>7. d \in Bytes /\ Len(d) = Len(u) /\ \A i \in 1..Len(u) : d[i] = s[Len(h) + i]
    <2>1. PICK a \in Nat, n \in Nat : a = Len(h) /\ n = Len(u)
        BY <1>3
    <2>2. a + n <= Len(s) /\ d = SubSeq(s, a + 1, a + n)
        BY <1>5, <1>6, <2>1
    <2>3. d \in Bytes /\ Len(d) = n /\ \A i \in 1..n : d[i] = s[a + i]
        BY <2>2, PartIs
    <2> QED
        BY <2>1, <2>3
<1>8. \A i \in 1..Len(u) : d[i] = u[i]
    BY <1>4, <1>7
<1>9. d = u
    BY <1>7, <1>8, SameBytes
<1> QED
    BY <1>1, <1>2, <1>5, <1>9

\* What is dropped from the front is dropped, and what is behind it stays.
LEMMA DropJoined ==
    ASSUME NEW u \in Bytes, NEW v \in Bytes
    PROVE  Drop(Cat(u, v), Len(u)) = v
<1>1. PICK s \in Bytes : s = Cat(u, v) /\ Len(s) = Len(u) + Len(v) /\ Len(u) \in Nat /\ Len(v) \in Nat
    BY CatLen
<1>2. Cat(v, <<>>) = v /\ <<>> \in Bytes
    BY NothingBefore
<1>3. SubSeq(Cat(u, Cat(v, <<>>)), Len(u) + 1, Len(u) + Len(v)) = v
    BY <1>2, TakeJoined
<1> QED
    BY <1>1, <1>2, <1>3 DEF Drop

LEMMA LvIs ==
    ASSUME NEW f \in Bytes
    PROVE  /\ LV(f) = Cat(Tag(Len(f)), f)
           /\ LV(f) \in Bytes /\ Len(LV(f)) = 1 + Len(f) /\ LV(f)[1] = Len(f)
<1>1. LV(f) = Cat(Tag(Len(f)), f)
    BY DEF LV, Cat, Tag
<1>2. Len(f) \in Nat
    BY BytesAt
<1>3. PICK t \in Bytes : t = Tag(Len(f)) /\ Len(t) = 1 /\ t[1] = Len(f)
    BY <1>2, HeadsAre
<1>4. Cat(t, f) \in Bytes /\ Len(Cat(t, f)) = 1 + Len(f)
    BY <1>2, <1>3, CatLen
<1>5. Cat(t, f)[1] = Len(f)
    <2>1. 1 \in 1..Len(t)
        BY <1>3
    <2> QED
        BY <1>3, <2>1, CatFront
<1> QED
    BY <1>1, <1>3, <1>4, <1>5

\* A field with its length in front is taken whole, and what follows is left.
LEMMA LvTaken ==
    ASSUME NEW f \in Bytes, NEW r \in Bytes
    PROVE  TakeLv(Cat(LV(f), r)) = Taken(f, r)
<1>1. PICK a \in Bytes : a = LV(f) /\ Len(a) = 1 + Len(f) /\ a[1] = Len(f)
    BY LvIs
<1>2. Len(f) \in Nat /\ Len(r) \in Nat
    BY BytesAt
<1>3. PICK h \in Bytes : h = Tag(Len(f)) /\ Len(h) = 1
    BY <1>2, HeadsAre
<1>4. PICK s \in Bytes : s = Cat(a, r) /\ Len(s) = Len(a) + Len(r) /\ s[1] = a[1]
    <2>1. 1 \in 1..Len(a)
        BY <1>1, <1>2
    <2> QED
        BY <2>1, CatLen, CatFront
<1>5. s = Cat(h, Cat(f, r))
    BY <1>1, <1>3, <1>4, LvIs, Regroup
<1>6. SubSeq(s, 2, 1 + Len(f)) = f
    <2>1. SubSeq(s, Len(h) + 1, Len(h) + Len(f)) = f
        BY <1>5, TakeJoined
    <2> QED
        BY <1>2, <1>3, <2>1
<1>7. Drop(s, 1 + Len(f)) = r
    BY <1>1, <1>4, DropJoined
<1>8. s # <<>> /\ s[1] = Len(f) /\ ~(Len(s) < 1 + s[1])
    BY <1>1, <1>2, <1>4
<1> QED
    BY <1>1, <1>4, <1>6, <1>7, <1>8 DEF TakeLv, Taken

\* parse_success, once the fields that must be there are: nothing more, or a Kc.
LEMMA ThreeFields ==
    ASSUME NEW s, NEW s2, NEW s3, NEW q, NEW res, NEW ck, NEW ik,
           TakeLv(s) = Taken(res, s2), TakeLv(s2) = Taken(ck, s3), TakeLv(s3) = Taken(ik, q),
           Len(res) \in ResMin..ResMax, Len(ck) = KeyBytes, Len(ik) = KeyBytes, IsPadding(q)
    PROVE  ParseSuccess(s) = Success([res |-> res, ck |-> ck, ik |-> ik, kc |-> <<>>])
<1>1. TakeLv(s).ok /\ TakeLv(s).value = res /\ TakeLv(s).rest = s2
    BY DEF Taken
<1>2. TakeLv(s2).ok /\ TakeLv(s2).value = ck /\ TakeLv(s2).rest = s3
    BY DEF Taken
<1>3. TakeLv(s3).ok /\ TakeLv(s3).value = ik /\ TakeLv(s3).rest = q
    BY DEF Taken
<1>4. ~NoValue.ok
    BY DEF NoValue
<1> QED
    BY <1>1, <1>2, <1>3, <1>4 DEF ParseSuccess, Success

LEMMA FourFields ==
    ASSUME NEW s, NEW s2, NEW s3, NEW s4, NEW q, NEW res, NEW ck, NEW ik, NEW kc,
           TakeLv(s) = Taken(res, s2), TakeLv(s2) = Taken(ck, s3), TakeLv(s3) = Taken(ik, s4),
           TakeLv(s4) = Taken(kc, q), ~IsPadding(s4), IsPadding(q),
           Len(res) \in ResMin..ResMax, Len(ck) = KeyBytes, Len(ik) = KeyBytes, Len(kc) = KcBytes
    PROVE  ParseSuccess(s) = Success([res |-> res, ck |-> ck, ik |-> ik, kc |-> kc])
<1>1. TakeLv(s).ok /\ TakeLv(s).value = res /\ TakeLv(s).rest = s2
    BY DEF Taken
<1>2. TakeLv(s2).ok /\ TakeLv(s2).value = ck /\ TakeLv(s2).rest = s3
    BY DEF Taken
<1>3. TakeLv(s3).ok /\ TakeLv(s3).value = ik /\ TakeLv(s3).rest = s4
    BY DEF Taken
<1>4. TakeLv(s4).ok /\ TakeLv(s4).value = kc /\ TakeLv(s4).rest = q
    BY DEF Taken
<1> QED
    BY <1>1, <1>2, <1>3, <1>4 DEF ParseSuccess, Success

\* What follows IK: a Kc with its length, or nothing, and then the filler.
KcAnd(kc, q) == IF kc = <<>> THEN q ELSE Cat(LV(kc), q)
Fields(res, ck, ik, kc, q) == Cat(LV(res), Cat(LV(ck), Cat(LV(ik), KcAnd(kc, q))))

LEMMA LvCat ==
    ASSUME NEW f \in Bytes, NEW r \in Bytes
    PROVE  Cat(LV(f), r) \in Bytes /\ Len(Cat(LV(f), r)) = 1 + Len(f) + Len(r)
<1>1. PICK a \in Bytes : a = LV(f) /\ Len(a) = 1 + Len(f)
    BY LvIs
<1>2. Cat(a, r) \in Bytes /\ Len(Cat(a, r)) = Len(a) + Len(r)
    BY CatLen
<1> QED
    BY <1>1, <1>2

LEMMA FieldsAre ==
    ASSUME NEW res \in Bytes, NEW ck \in Bytes, NEW ik \in Bytes, NEW kc \in Bytes, NEW q \in Bytes
    PROVE  /\ KcAnd(kc, q) \in Bytes
           /\ Cat(LV(ik), KcAnd(kc, q)) \in Bytes
           /\ Cat(LV(ck), Cat(LV(ik), KcAnd(kc, q))) \in Bytes
           /\ Fields(res, ck, ik, kc, q) \in Bytes
           /\ Len(Fields(res, ck, ik, kc, q)) =
                 3 + Len(res) + Len(ck) + Len(ik) + Len(KcAnd(kc, q))
<1>3. Len(ik) \in Nat /\ Len(ck) \in Nat /\ Len(res) \in Nat
    BY BytesAt
<1>4. PICK d \in Bytes : d = KcAnd(kc, q)
    BY LvCat DEF KcAnd
<1>5. PICK c \in Bytes : c = Cat(LV(ik), d) /\ Len(c) = 1 + Len(ik) + Len(d)
    BY LvCat
<1>6. PICK b \in Bytes : b = Cat(LV(ck), c) /\ Len(b) = 1 + Len(ck) + Len(c)
    BY LvCat
<1>7. PICK a \in Bytes : a = Cat(LV(res), b) /\ Len(a) = 1 + Len(res) + Len(b)
    BY LvCat
<1>8. Len(d) \in Nat
    BY BytesAt
<1>9. Len(a) = 3 + Len(res) + Len(ck) + Len(ik) + Len(d)
    BY <1>3, <1>5, <1>6, <1>7, <1>8
<1>10. a = Fields(res, ck, ik, kc, q)
    BY <1>4, <1>5, <1>6, <1>7 DEF Fields
<1> QED
    BY <1>4, <1>5, <1>6, <1>9, <1>10

\* The fields one after the other are read as what they are, whatever filler is
\* behind them; a Kc that is there is never taken for filler.
LEMMA FieldsParse ==
    ASSUME NEW res \in Bytes, NEW ck \in Bytes, NEW ik \in Bytes, NEW kc \in Bytes, NEW q \in Bytes,
           Len(res) \in ResMin..ResMax, Len(ck) = KeyBytes, Len(ik) = KeyBytes,
           kc # <<>> => Len(kc) = KcBytes, IsPadding(q)
    PROVE  ParseSuccess(Fields(res, ck, ik, kc, q)) =
             Success([res |-> res, ck |-> ck, ik |-> ik, kc |-> kc])
<1>1. PICK s4 \in Bytes : s4 = KcAnd(kc, q)
    BY FieldsAre
<1>2. PICK s3 \in Bytes : s3 = Cat(LV(ik), s4)
    BY <1>1, FieldsAre
<1>3. PICK s2 \in Bytes : s2 = Cat(LV(ck), s3)
    BY <1>1, <1>2, FieldsAre
<1>4. PICK s \in Bytes : s = Cat(LV(res), s2)
    BY <1>1, <1>2, <1>3, FieldsAre DEF Fields
<1>5. TakeLv(s) = Taken(res, s2) /\ TakeLv(s2) = Taken(ck, s3) /\ TakeLv(s3) = Taken(ik, s4)
    BY <1>2, <1>3, <1>4, LvTaken
<1>6. s = Fields(res, ck, ik, kc, q)
    BY <1>1, <1>2, <1>3, <1>4 DEF Fields
<1>7. CASE kc = <<>>
    <2>1. s4 = q
        BY <1>1, <1>7 DEF KcAnd
    <2>2. ParseSuccess(s) = Success([res |-> res, ck |-> ck, ik |-> ik, kc |-> <<>>])
        BY <1>5, <2>1, ThreeFields
    <2> QED
        BY <1>6, <1>7, <2>2
<1>8. CASE kc # <<>>
    <2>1. PICK a \in Bytes : a = LV(kc) /\ Len(a) = 1 + KcBytes /\ a[1] = KcBytes
        BY <1>8, LvIs
    <2>2. s4 = Cat(a, q)
        BY <1>1, <1>8, <2>1 DEF KcAnd
    <2>3. TakeLv(s4) = Taken(kc, q)
        BY <2>1, <2>2, LvTaken
    <2>4. 1 \in 1..Len(a)
        BY <2>1, AkaNumbers
    <2>5. s4[1] = KcBytes
        BY <2>1, <2>2, <2>4, CatFront
    <2>6. 1 \in 1..Len(s4)
        <3>1. Len(s4) = Len(a) + Len(q) /\ Len(q) \in Nat
            BY <2>2, CatLen
        <3> QED
            BY <2>1, <3>1, AkaNumbers
    <2>7. KcBytes \notin Filler
        BY AkaNumbers DEF Filler
    <2>8. ~IsPadding(s4)
        BY <2>5, <2>6, <2>7 DEF IsPadding
    <2>9. ParseSuccess(s) = Success([res |-> res, ck |-> ck, ik |-> ik, kc |-> kc])
        BY <1>5, <1>8, <2>3, <2>8, FourFields
    <2> QED
        BY <1>6, <2>9
<1> QED
    BY <1>7, <1>8

\* A first field that is too long for a RES, or that is not all there, is none.
LEMMA TooLongForRes ==
    ASSUME NEW s, \/ TakeLv(s) = NoValue
                  \/ TakeLv(s).ok /\ Len(TakeLv(s).value) \in Nat /\ Len(TakeLv(s).value) > ResMax
    PROVE  ParseSuccess(s) = Malformed
<1>1. CASE TakeLv(s) = NoValue
    <2>1. ~TakeLv(s).ok /\ ~NoValue.ok
        BY <1>1 DEF NoValue
    <2> QED
        BY <2>1 DEF ParseSuccess
<1>2. CASE TakeLv(s).ok /\ Len(TakeLv(s).value) \in Nat /\ Len(TakeLv(s).value) > ResMax
    <2>1. Len(TakeLv(s).value) \notin ResMin..ResMax
        BY <1>2, AkaNumbers
    <2> QED
        BY <2>1 DEF ParseSuccess
<1> QED
    BY <1>1, <1>2

\* The filler in front is stripped up to the tag, and no further.
LEMMA Stripped ==
    ASSUME NEW p \in Bytes, IsPadding(p), NEW b \in Bytes, Len(b) > 0, b[1] \notin Filler
    PROVE  StripLeadingPadding(Cat(p, b)) = b
<1> DEFINE s == Cat(p, b)
           Good(i) == IsPadding(SubSeq(s, 1, i - 1)) /\ (i <= Len(s) => s[i] \notin Filler)
           k == Len(p) + 1
<1>1. s \in Bytes /\ Len(s) = Len(p) + Len(b) /\ Len(b) \in Nat /\ Len(p) \in Nat
    BY CatLen
<1>2. \A i \in 1..Len(p) : s[i] \in Filler
    BY CatFront DEF IsPadding
<1>3. s[k] \notin Filler
    <2>1. 1 \in 1..Len(b)
        BY <1>1
    <2> QED
        BY <2>1, CatBack
<1>4. Drop(s, Len(p)) = b
    BY DropJoined
<1> HIDE DEF s
<1>5. ASSUME NEW i \in 1..Len(s) + 1
      PROVE  Len(SubSeq(s, 1, i - 1)) = i - 1 /\ \A j \in 1..i - 1 : SubSeq(s, 1, i - 1)[j] = s[j]
    <2>1. PICK n \in Nat : n = i - 1 /\ n <= Len(s)
        BY <1>1
    <2>2. \A j \in 1..n : s[j] \in Nat
        BY <1>1, <2>1, BytesAt
    <2>3. Len(SubSeq(s, 1, n)) = n /\ \A j \in 1..n : SubSeq(s, 1, n)[j] = s[j]
        BY <2>2, SubSeqProperties
    <2> QED
        BY <2>1, <2>3
<1>6. k \in 1..Len(s) + 1 /\ k <= Len(s) /\ k - 1 = Len(p)
    BY <1>1
<1>7. Good(k)
    <2>1. Len(SubSeq(s, 1, k - 1)) = Len(p) /\ \A j \in 1..Len(p) : SubSeq(s, 1, k - 1)[j] = s[j]
        BY <1>5, <1>6
    <2>2. IsPadding(SubSeq(s, 1, k - 1))
        BY <1>2, <2>1 DEF IsPadding
    <2> QED
        BY <1>3, <2>2
<1>8. ASSUME NEW i \in 1..Len(s) + 1, Good(i) PROVE i = k
    <2>1. CASE i < k
        <3>1. i \in 1..Len(p) /\ i <= Len(s)
            BY <1>1, <2>1
        <3> QED
            BY <1>2, <1>8, <3>1
    <2>2. CASE i > k
        <3>1. k \in 1..i - 1
            BY <1>1, <2>2
        <3>2. SubSeq(s, 1, i - 1)[k] \in Filler
            BY <1>5, <1>8, <3>1 DEF IsPadding
        <3> QED
            BY <1>3, <1>5, <3>1, <3>2
    <2> QED
        BY <1>1, <2>1, <2>2
<1>9. (CHOOSE i \in 1..(Len(s) + 1) : Good(i)) = k
    <2> HIDE DEF Good, k
    <2> QED
        BY <1>6, <1>7, <1>8
<1>10. StripLeadingPadding(s) = Drop(s, (CHOOSE i \in 1..(Len(s) + 1) : Good(i)) - 1)
    BY DEF StripLeadingPadding
<1> QED
    BY <1>4, <1>6, <1>9, <1>10 DEF s

\* A value after its tag and its length is the value of the TLV, and what follows
\* is left: with the length in short form, and with the mark 129 before it.
LEMMA TlvShort ==
    ASSUME NEW t \in Nat, NEW f \in Bytes, Len(f) < 128, NEW r \in Bytes
    PROVE  ReadTlv(Cat(ShortHead(t, Len(f)), Cat(f, r))) = Taken(f, r)
<1>1. PICK l \in Nat, lr \in Nat : l = Len(f) /\ lr = Len(r)
    BY BytesAt
<1>2. PICK h \in Bytes : h = ShortHead(t, l) /\ Len(h) = 2 /\ h[2] = l
    BY HeadsAre
<1>3. PICK x \in Bytes : x = Cat(f, r) /\ Len(x) = l + lr
    BY <1>1, CatLen
<1>4. PICK s \in Bytes : s = Cat(h, x) /\ Len(s) = 2 + (l + lr)
    <2>1. Cat(h, x) \in Bytes /\ Len(Cat(h, x)) = Len(h) + Len(x)
        BY CatLen
    <2> QED
        BY <1>2, <1>3, <2>1
<1>5. s[2] = h[2] /\ s[2] = h[2]
    <2>1. 2 \in 1..Len(h) /\ 2 \in 1..Len(h)
        BY <1>2
    <2> QED
        BY <1>4, <2>1, CatFront
<1>6. SubSeq(s, 2 + 1, 2 + s[2]) = f
    <2>1. SubSeq(s, Len(h) + 1, Len(h) + Len(f)) = f
        BY <1>3, <1>4, TakeJoined
    <2>2. Len(h) = 2 /\ Len(f) = s[2]
        BY <1>1, <1>2, <1>5
    <2> QED
        BY <2>1, <2>2
<1>7. Drop(s, 2 + s[2]) = r
    <2>1. PICK a \in Bytes : a = Cat(h, f) /\ Len(a) = Len(h) + Len(f)
        BY CatLen
    <2>2. s = Cat(a, r)
        BY <1>3, <1>4, <2>1, Regroup
    <2>3. Drop(s, Len(h) + Len(f)) = r
        BY <2>1, <2>2, DropJoined
    <2>4. Len(h) = 2 /\ Len(f) = s[2]
        BY <1>1, <1>2, <1>5
    <2> QED
        BY <2>3, <2>4
<1>8. TlvHead(s) = 2 /\ TlvLength(s) = s[2] /\ ~(Len(s) < 2 + s[2])
    <2>1. s[2] = l /\ l < 128
        BY <1>1, <1>2, <1>5
    <2>2. Len(s) >= 2 /\ s[2] < 128 /\ ~(Len(s) < 2 + s[2])
        BY <1>4, <2>1
    <2>3. TlvHead(s) = 2
        BY <2>2 DEF TlvHead
    <2> QED
        BY <2>2, <2>3 DEF TlvLength
<1>9. ReadTlv(s) = [ok |-> TRUE, value |-> SubSeq(s, 2 + 1, 2 + s[2]), rest |-> Drop(s, 2 + s[2])]
    BY <1>8 DEF ReadTlv
<1>10. ReadTlv(s) = Taken(f, r)
    BY <1>6, <1>7, <1>9 DEF Taken
<1> QED
    BY <1>1, <1>2, <1>3, <1>4, <1>10

LEMMA TlvLong ==
    ASSUME NEW t \in Nat, NEW f \in Bytes, NEW r \in Bytes
    PROVE  ReadTlv(Cat(LongHead(t, Len(f)), Cat(f, r))) = Taken(f, r)
<1>1. PICK l \in Nat, lr \in Nat : l = Len(f) /\ lr = Len(r)
    BY BytesAt
<1>2. PICK h \in Bytes : h = LongHead(t, l) /\ Len(h) = 3 /\ h[2] = 129 /\ h[3] = l
    BY HeadsAre
<1>3. PICK x \in Bytes : x = Cat(f, r) /\ Len(x) = l + lr
    BY <1>1, CatLen
<1>4. PICK s \in Bytes : s = Cat(h, x) /\ Len(s) = 3 + (l + lr)
    <2>1. Cat(h, x) \in Bytes /\ Len(Cat(h, x)) = Len(h) + Len(x)
        BY CatLen
    <2> QED
        BY <1>2, <1>3, <2>1
<1>5. s[2] = h[2] /\ s[3] = h[3]
    <2>1. 2 \in 1..Len(h) /\ 3 \in 1..Len(h)
        BY <1>2
    <2> QED
        BY <1>4, <2>1, CatFront
<1>6. SubSeq(s, 3 + 1, 3 + s[3]) = f
    <2>1. SubSeq(s, Len(h) + 1, Len(h) + Len(f)) = f
        BY <1>3, <1>4, TakeJoined
    <2>2. Len(h) = 3 /\ Len(f) = s[3]
        BY <1>1, <1>2, <1>5
    <2> QED
        BY <2>1, <2>2
<1>7. Drop(s, 3 + s[3]) = r
    <2>1. PICK a \in Bytes : a = Cat(h, f) /\ Len(a) = Len(h) + Len(f)
        BY CatLen
    <2>2. s = Cat(a, r)
        BY <1>3, <1>4, <2>1, Regroup
    <2>3. Drop(s, Len(h) + Len(f)) = r
        BY <2>1, <2>2, DropJoined
    <2>4. Len(h) = 3 /\ Len(f) = s[3]
        BY <1>1, <1>2, <1>5
    <2> QED
        BY <2>3, <2>4
<1>8. TlvHead(s) = 3 /\ TlvLength(s) = s[3] /\ ~(Len(s) < 3 + s[3])
    <2>1. s[3] = l /\ s[2] = 129
        BY <1>1, <1>2, <1>5
    <2>2. Len(s) >= 3 /\ ~(s[2] < 128) /\ s[2] = 129 /\ ~(Len(s) < 3 + s[3])
        BY <1>4, <2>1
    <2>3. TlvHead(s) = 3
        BY <2>2 DEF TlvHead
    <2> QED
        BY <2>2, <2>3 DEF TlvLength
<1>9. ReadTlv(s) = [ok |-> TRUE, value |-> SubSeq(s, 3 + 1, 3 + s[3]), rest |-> Drop(s, 3 + s[3])]
    BY <1>8 DEF ReadTlv
<1>10. ReadTlv(s) = Taken(f, r)
    BY <1>6, <1>7, <1>9 DEF Taken
<1> QED
    BY <1>1, <1>2, <1>3, <1>4, <1>10

\* What a card of either way of wrapping puts around a value.
LEMMA WrappedForms ==
    ASSUME NEW f \in Bytes
    PROVE  /\ Wrapped(f) \in Bytes
           /\ trait.wrap # "long" => Wrapped(f) = LV(f)
           /\ trait.wrap = "long" => Wrapped(f) = Cat(Mark(Len(f)), f)
<1>1. Len(f) \in Nat
    BY BytesAt
<1>2. CASE trait.wrap # "long"
    BY <1>2, LvIs DEF Wrapped
<1>3. CASE trait.wrap = "long"
    <2>1. Wrapped(f) = Cat(Mark(Len(f)), f)
        BY <1>3 DEF Wrapped, Cat, Mark
    <2>2. PICK m \in Bytes : m = Mark(Len(f))
        BY <1>1, HeadsAre
    <2> QED
        BY <1>3, <2>1, <2>2, CatLen
<1> QED
    BY <1>2, <1>3

\* A wrapped value with filler behind it is the whole of what follows the tag.
LEMMA WrappedRead ==
    ASSUME NEW t \in Nat, t \notin Filler, NEW f \in Bytes, Len(f) < 128, NEW q \in Bytes, IsPadding(q)
    PROVE  WrappedValue(Cat(Tag(t), Cat(Wrapped(f), q))) = Taken(f, q)
<1>1. PICK w \in Bytes : w = Wrapped(f)
    BY WrappedForms
<1>2. PICK a \in Bytes : a = Tag(t) /\ Len(a) = 1 /\ a[1] = t
    BY HeadsAre
<1>3. PICK r \in Bytes : r = Cat(w, q)
    BY CatLen
<1>4. PICK s \in Bytes : s = Cat(a, r) /\ Len(s) = Len(a) + Len(r) /\ Len(r) \in Nat
    BY CatLen
<1>5. StripLeadingPadding(s) = s
    <2>1. 1 \in 1..Len(a)
        BY <1>2
    <2>2. Len(s) > 0 /\ s[1] \notin Filler
        BY <1>2, <1>4, <2>1, CatFront
    <2>3. <<>> \in Bytes /\ IsPadding(<<>>) /\ Cat(<<>>, s) = s
        BY NothingBefore
    <2> QED
        BY <2>2, <2>3, Stripped
<1>6. PICK n \in Nat : n = Len(f)
    BY BytesAt
<1>7. PICK x \in Bytes : x = Cat(f, q)
    BY CatLen
<1>8. ReadTlv(s) = Taken(f, q)
    <2>1. CASE trait.wrap # "long"
        <3>1. PICK m \in Bytes : m = Tag(n)
            BY HeadsAre
        <3>2. w = Cat(m, f)
            BY <1>1, <1>6, <2>1, <3>1, WrappedForms, LvIs
        <3>3. s = Cat(Cat(a, m), x)
            BY <1>3, <1>4, <1>7, <3>2, Regroup
        <3>4. Cat(a, m) = ShortHead(t, n)
            BY <1>2, <3>1, HeadsJoined
        <3> QED
            BY <1>6, <1>7, <3>3, <3>4, TlvShort
    <2>2. CASE trait.wrap = "long"
        <3>1. PICK m \in Bytes : m = Mark(n)
            BY HeadsAre
        <3>2. w = Cat(m, f)
            BY <1>1, <1>6, <2>2, <3>1, WrappedForms
        <3>3. s = Cat(Cat(a, m), x)
            BY <1>3, <1>4, <1>7, <3>2, Regroup
        <3>4. Cat(a, m) = LongHead(t, n)
            BY <1>2, <3>1, HeadsJoined
        <3> QED
            BY <1>6, <1>7, <3>3, <3>4, TlvLong
    <2> QED
        BY <2>1, <2>2
<1>9. ReadTlv(s).ok /\ ReadTlv(s).rest = q
    BY <1>8 DEF Taken
<1>10. WrappedValue(s) = Taken(f, q)
    BY <1>5, <1>8, <1>9 DEF WrappedValue
<1> QED
    BY <1>1, <1>2, <1>3, <1>4, <1>10

\* The fields as the card puts them together, and with what follows them.
Together(res, ck, ik, kc) ==
    Cat(Cat(Cat(LV(res), LV(ck)), LV(ik)), IF kc = <<>> THEN <<>> ELSE LV(kc))

LEMMA TogetherIs ==
    ASSUME NEW res \in Bytes, NEW ck \in Bytes, NEW ik \in Bytes, NEW kc \in Bytes
    PROVE  /\ Together(res, ck, ik, kc) \in Bytes
           /\ \A q \in Bytes : Cat(Together(res, ck, ik, kc), q) = Fields(res, ck, ik, kc, q)
           /\ Together(res, ck, ik, kc) = Fields(res, ck, ik, kc, <<>>)
<1>1. PICK a \in Bytes, b \in Bytes, c \in Bytes : a = LV(res) /\ b = LV(ck) /\ c = LV(ik)
    BY LvIs
<1>2. PICK d \in Bytes : d = IF kc = <<>> THEN <<>> ELSE LV(kc)
    BY LvIs
<1>3. PICK ab \in Bytes : ab = Cat(a, b)
    BY CatLen
<1>4. PICK abc \in Bytes : abc = Cat(ab, c)
    BY CatLen
<1>5. PICK all \in Bytes : all = Cat(abc, d)
    BY CatLen
<1>6. all = Together(res, ck, ik, kc)
    BY <1>1, <1>2, <1>3, <1>4, <1>5 DEF Together
<1>7. ASSUME NEW q \in Bytes PROVE Cat(all, q) = Fields(res, ck, ik, kc, q)
    <2>1. PICK dq \in Bytes : dq = Cat(d, q)
        BY CatLen
    <2>2. PICK cdq \in Bytes : cdq = Cat(c, dq)
        BY CatLen
    <2>3. Cat(all, q) = Cat(abc, dq)
        BY <1>5, <2>1, Regroup
    <2>4. Cat(abc, dq) = Cat(ab, cdq)
        BY <1>4, <2>2, Regroup
    <2>5. Cat(ab, cdq) = Cat(a, Cat(b, cdq))
        BY <1>3, Regroup
    <2>6. dq = KcAnd(kc, q)
        BY <1>2, <2>1, NothingBefore DEF KcAnd
    <2> QED
        BY <1>1, <2>2, <2>3, <2>4, <2>5, <2>6 DEF Fields
<1>8. <<>> \in Bytes /\ Cat(all, <<>>) = all
    BY NothingBefore
<1> QED
    BY <1>6, <1>7, <1>8

\* A body is its filler, its tag, what the tag is about, and filler again.
LEMMA BodyStripped ==
    ASSUME NEW p \in Bytes, IsPadding(p), NEW t \in Nat, t \notin Filler, NEW x \in Bytes,
           NEW s, s = Cat(Tag(t), Cat(x, p))
    PROVE  /\ StripLeadingPadding(Cat(Cat(Cat(p, Tag(t)), x), p)) = s
           /\ s # <<>> /\ s[1] = t /\ Drop(s, 1) = Cat(x, p)
<1>1. PICK a \in Bytes : a = Tag(t) /\ Len(a) = 1 /\ a[1] = t
    BY HeadsAre
<1>2. PICK r \in Bytes : r = Cat(x, p) /\ Len(r) \in Nat
    BY CatLen, BytesAt
<1>3. s \in Bytes /\ Len(s) = Len(a) + Len(r)
    BY <1>1, <1>2, CatLen
<1>4. Len(s) > 0 /\ s # <<>>
    BY <1>1, <1>2, <1>3
<1>5. s[1] = t
    <2>1. 1 \in 1..Len(a)
        BY <1>1
    <2> QED
        BY <1>1, <1>2, <2>1, CatFront
<1>6. Drop(s, 1) = r
    <2>1. Drop(Cat(a, r), Len(a)) = r
        BY DropJoined
    <2> QED
        BY <1>1, <1>2, <2>1
<1>7. PICK y \in Bytes : y = Cat(p, a)
    BY CatLen
<1>8. Cat(Cat(y, x), p) = Cat(y, r) /\ Cat(y, r) = Cat(p, Cat(a, r))
    BY <1>2, <1>7, Regroup
<1>9. StripLeadingPadding(Cat(p, s)) = s
    BY <1>3, <1>4, <1>5, Stripped
<1> QED
    BY <1>1, <1>2, <1>4, <1>5, <1>6, <1>7, <1>8, <1>9

\* What is wrapped is not mistaken for a RES and what follows it.
LEMMA WrappedIsNoRes ==
    ASSUME NEW f \in Bytes, Len(f) > ResMax, Len(f) < 128, NEW q \in Bytes
    PROVE  ParseSuccess(Cat(Wrapped(f), q)) = Malformed
<1>1. PICK l \in Nat : l = Len(f)
    BY BytesAt
<1>2. CASE trait.wrap # "long"
    <2>1. TakeLv(Cat(Wrapped(f), q)) = Taken(f, q)
        BY <1>2, WrappedForms, LvTaken
    <2>2. TakeLv(Cat(Wrapped(f), q)).ok /\ TakeLv(Cat(Wrapped(f), q)).value = f
        BY <2>1 DEF Taken
    <2>3. Len(f) \in Nat
        BY <1>1
    <2> QED
        BY <2>2, <2>3, TooLongForRes
<1>3. CASE trait.wrap = "long"
    <2>1. PICK m \in Bytes : m = Mark(l) /\ Len(m) = 2 /\ m[1] = 129
        BY HeadsAre
    <2>2. PICK w \in Bytes : w = Wrapped(f) /\ w = Cat(m, f)
        BY <1>1, <1>3, <2>1, WrappedForms
    <2>3. Len(w) = Len(m) + Len(f)
        BY <2>2, CatLen
    <2>4. PICK z \in Bytes : z = Cat(w, q) /\ Len(z) = Len(w) + Len(q) /\ Len(q) \in Nat
        BY CatLen
    <2>5. z[1] = 129
        <3>1. 1 \in 1..Len(m) /\ 1 \in 1..Len(w)
            BY <1>1, <2>1, <2>3
        <3> QED
            BY <2>1, <2>2, <2>4, <3>1, CatFront
    <2>6. z # <<>>
        BY <1>1, <2>1, <2>3, <2>4
    <2>7. CASE Len(z) < 1 + z[1]
        <3>1. TakeLv(z) = NoValue
            BY <2>6, <2>7 DEF TakeLv
        <3> QED
            BY <2>2, <2>4, <3>1, TooLongForRes
    <2>8. CASE ~(Len(z) < 1 + z[1])
        <3>1. PICK a \in Nat, n \in Nat : a = 1 /\ n = 129 /\ a + n <= Len(z)
            BY <1>1, <2>1, <2>3, <2>4, <2>5, <2>8
        <3>2. PICK d : d = SubSeq(z, a + 1, a + n)
            OBVIOUS
        <3>3. Len(d) = n
            BY <3>1, <3>2, PartIs
        <3>4. d = SubSeq(z, 2, 1 + z[1])
            BY <2>5, <3>1, <3>2
        <3>5. TakeLv(z).ok /\ TakeLv(z).value = d
            BY <2>6, <2>8, <3>4 DEF TakeLv
        <3>6. Len(d) \in Nat /\ Len(d) > ResMax
            BY <3>1, <3>3, AkaNumbers
        <3> QED
            BY <2>2, <2>4, <3>5, <3>6, TooLongForRes
    <2> QED
        BY <2>7, <2>8
<1> QED
    BY <1>2, <1>3

\* The arms of classify_body for the two tags a body with something in it has.
LEMMA TagsDiffer ==
    /\ TagSuccess = 219 /\ TagSyncFailure = 220
    /\ TagSuccess # TagSyncFailure /\ TagSuccess # TagAuthFailure /\ TagSyncFailure # TagAuthFailure
    BY DEF TagSuccess, TagSyncFailure, TagAuthFailure

LEMMA ClassifyKeys ==
    ASSUME NEW body, NEW s, StripLeadingPadding(body) = s, s # <<>>, s[1] = TagSuccess
    PROVE  /\ ParseSuccess(Drop(s, 1)).what = "success" => ClassifyBody(body) = ParseSuccess(Drop(s, 1))
           /\ ParseSuccess(Drop(s, 1)).what # "success" /\ WrappedValue(s).ok =>
                ClassifyBody(body) = ParseSuccess(WrappedValue(s).value)
    BY TagsDiffer DEF ClassifyBody

LEMMA ClassifySync ==
    ASSUME NEW body, NEW s, StripLeadingPadding(body) = s, s # <<>>, s[1] = TagSyncFailure,
           WrappedValue(s).ok, Len(WrappedValue(s).value) = AutsBytes
    PROVE  ClassifyBody(body) = Result("sync_failure", WrappedValue(s).value)
    BY TagsDiffer DEF ClassifyBody

PaddedCard == trait.pad \in Bytes /\ IsPadding(trait.pad)

\* A run of all the fields is longer than any RES, and no longer than a short
\* length can say.
IsRes(f) == Len(f) \in ResMin..ResMax
IsKey(f) == Len(f) = KeyBytes
IsKcOrNone(f) == Len(f) = 0 \/ Len(f) = 1 + KcBytes

LEMMA TogetherBounds ==
    ASSUME NEW res \in Bytes, NEW ck \in Bytes, NEW ik \in Bytes, NEW kc \in Bytes, NEW e \in Bytes,
           IsRes(res), IsKey(ck), IsKey(ik), IsKcOrNone(KcAnd(kc, e))
    PROVE  LET l == Len(Fields(res, ck, ik, kc, e)) IN l \in Nat /\ l > ResMax /\ l < 128
<1>1. Len(Fields(res, ck, ik, kc, e)) = 3 + Len(res) + Len(ck) + Len(ik) + Len(KcAnd(kc, e))
    BY FieldsAre
<1>2. Len(res) \in Nat /\ Len(ck) \in Nat /\ Len(ik) \in Nat /\ Len(KcAnd(kc, e)) \in Nat
    BY FieldsAre, BytesAt
<1>3. PICK l : l = Len(Fields(res, ck, ik, kc, e))
    OBVIOUS
<1> DEFINE a == Len(res)
           b == Len(ck)
           c == Len(ik)
           d == Len(KcAnd(kc, e))
<1>4. l = 3 + a + b + c + d
    BY <1>1, <1>3
<1>5. a \in ResMin..ResMax /\ b = KeyBytes /\ c = KeyBytes /\ (d = 0 \/ d = 1 + KcBytes)
    BY DEF IsRes, IsKey, IsKcOrNone
<1> HIDE DEF a, b, c, d
<1>6. l \in Nat /\ l > ResMax /\ l < 128
    BY <1>4, <1>5, AkaNumbers
<1> QED
    BY <1>3, <1>6

\* classify_body reads back the keys the card answered with, however the card
\* wraps and pads them.
LEMMA KeysRead ==
    ASSUME PaddedCard,
           NEW res \in Bytes, NEW ck \in Bytes, NEW ik \in Bytes, NEW kc \in Bytes,
           Len(res) \in ResMin..ResMax, Len(ck) = KeyBytes, Len(ik) = KeyBytes,
           kc # <<>> => Len(kc) = KcBytes,
           NEW v, v = [res |-> res, ck |-> ck, ik |-> ik, kc |-> kc]
    PROVE  ClassifyBody(SuccessBody(v)) = Success(v)
<1>1. PICK p \in Bytes : p = trait.pad /\ IsPadding(p)
    BY DEF PaddedCard
<1>2. PICK f \in Bytes : f = Together(res, ck, ik, kc)
    BY TogetherIs
<1>3. Cat(f, p) = Fields(res, ck, ik, kc, p) /\ f = Fields(res, ck, ik, kc, <<>>)
    BY <1>2, TogetherIs
<1>4. PICK e \in Bytes : e = <<>> /\ IsPadding(e)
    BY NothingBefore
<1>5. Len(f) \in Nat /\ Len(f) > ResMax /\ Len(f) < 128
    <2>1. IsKcOrNone(KcAnd(kc, e))
        <3>1. CASE kc = <<>>
            BY <1>4, <3>1 DEF KcAnd, IsKcOrNone
        <3>2. CASE kc # <<>>
            <4>1. Len(Cat(LV(kc), e)) = 1 + Len(kc) + Len(e) /\ Len(e) = 0
                BY <1>4, LvCat
            <4>2. KcAnd(kc, e) = Cat(LV(kc), e)
                BY <3>2 DEF KcAnd
            <4>3. Len(kc) = KcBytes /\ KcBytes \in Nat
                BY <3>2, AkaNumbers
            <4> QED
                BY <4>1, <4>2, <4>3 DEF IsKcOrNone
        <3> QED
            BY <3>1, <3>2
    <2>2. IsRes(res) /\ IsKey(ck) /\ IsKey(ik)
        BY DEF IsRes, IsKey
    <2>3. f = Fields(res, ck, ik, kc, e)
        BY <1>3, <1>4
    <2> QED
        BY <2>1, <2>2, <2>3, TogetherBounds
<1>6. ParseSuccess(Cat(f, p)) = Success(v)
    BY <1>1, <1>3, FieldsParse
<1>7. ParseSuccess(f) = Success(v)
    BY <1>3, <1>4, FieldsParse
<1>8. PICK x \in Bytes : x = IF trait.wrap = "plain" THEN f ELSE Wrapped(f)
    BY WrappedForms
<1>9. SuccessBody(v) = Cat(Cat(Cat(p, Tag(219)), x), p)
    <2>1. v.res = res /\ v.ck = ck /\ v.ik = ik /\ v.kc = kc
        OBVIOUS
    <2> DEFINE all == LV(v.res) \o LV(v.ck) \o LV(v.ik) \o (IF v.kc = <<>> THEN <<>> ELSE LV(v.kc))
    <2>2. f = all
        BY <1>2, <2>1 DEF Together, Cat
    <2>3. SuccessBody(v) = trait.pad \o <<TagSuccess>> \o (IF trait.wrap = "plain" THEN all ELSE Wrapped(all)) \o trait.pad
        BY DEF SuccessBody
    <2> HIDE DEF all
    <2> QED
        BY <1>1, <1>8, <2>2, <2>3, Zenon DEF Cat, Tag, TagSuccess
<1>10. PICK s : s = Cat(Tag(219), Cat(x, p))
    OBVIOUS
<1>11. 219 \in Nat /\ 219 \notin Filler
    BY DEF Filler
<1>12. StripLeadingPadding(SuccessBody(v)) = s /\ s # <<>> /\ s[1] = 219 /\ Drop(s, 1) = Cat(x, p)
    BY <1>1, <1>9, <1>10, <1>11, BodyStripped
<1>13. Success(v).what = "success"
    BY DEF Success, Result
<1>14. CASE trait.wrap = "plain"
    <2>1. ParseSuccess(Drop(s, 1)) = Success(v)
        BY <1>6, <1>8, <1>12, <1>14
    <2> QED
        BY <1>12, <1>13, <2>1, TagsDiffer, ClassifyKeys
<1>15. CASE trait.wrap # "plain"
    <2>1. x = Wrapped(f)
        BY <1>8, <1>15
    <2>2. ParseSuccess(Drop(s, 1)) = Malformed
        BY <1>5, <1>12, <2>1, WrappedIsNoRes
    <2>3. Malformed.what # "success"
        BY DEF Malformed, Result
    <2>4. WrappedValue(s) = Taken(f, p)
        BY <1>1, <1>5, <1>10, <1>11, <2>1, WrappedRead
    <2>5. WrappedValue(s).ok /\ WrappedValue(s).value = f
        BY <2>4 DEF Taken
    <2> QED
        BY <1>7, <1>12, <2>2, <2>3, <2>5, TagsDiffer, ClassifyKeys
<1> QED
    BY <1>14, <1>15

\* And the AUTS of a card that is out of step.
LEMMA AutsRead ==
    ASSUME PaddedCard, NEW a \in Bytes, Len(a) = AutsBytes
    PROVE  ClassifyBody(SyncBody(a)) = Result("sync_failure", a)
<1>1. PICK p \in Bytes : p = trait.pad /\ IsPadding(p)
    BY DEF PaddedCard
<1>2. PICK x \in Bytes : x = Wrapped(a)
    BY WrappedForms
<1>3. SyncBody(a) = Cat(Cat(Cat(p, Tag(220)), x), p)
    BY <1>1, <1>2, Zenon DEF SyncBody, TagSyncFailure, Cat, Tag
<1>4. PICK s : s = Cat(Tag(220), Cat(x, p))
    OBVIOUS
<1>5. 220 \in Nat /\ 220 \notin Filler
    BY DEF Filler
<1>6. StripLeadingPadding(SyncBody(a)) = s /\ s # <<>> /\ s[1] = 220
    BY <1>1, <1>3, <1>4, <1>5, BodyStripped
<1>7. WrappedValue(s) = Taken(a, p)
    BY <1>1, <1>2, <1>4, <1>5, AkaNumbers, WrappedRead
<1>8. WrappedValue(s).ok /\ WrappedValue(s).value = a
    BY <1>7 DEF Taken
<1> QED
    BY <1>6, <1>8, TagsDiffer, ClassifySync

LEMMA CardPads ==
    ASSUME trait \in Traits PROVE PaddedCard
<1>1. trait.pad \in {<<>>, <<0>>, <<255>>}
    BY DEF Traits
<1>2. CASE trait.pad = <<>>
    BY <1>2, EmptyIs DEF PaddedCard
<1>3. ASSUME NEW b \in Filler, trait.pad = Tag(b) PROVE PaddedCard
    <2>1. b \in Nat
        BY DEF Filler
    <2>2. Tag(b) \in Bytes /\ Len(Tag(b)) = 1 /\ Tag(b)[1] = b
        BY <2>1, HeadsAre
    <2> QED
        BY <1>3, <2>2 DEF PaddedCard, IsPadding
<1>4. 0 \in Filler /\ 255 \in Filler /\ Tag(0) = <<0>> /\ Tag(255) = <<255>>
    BY DEF Filler, Tag
<1> QED
    BY <1>1, <1>2, <1>3, <1>4

\* Whatever the lengths of the fields, the keys of either application and the AUTS
\* come through as the card computed them.
LEMMA VectorRead ==
    ASSUME trait \in Traits, NEW n \in Nat
    PROVE  ClassifyBody(SuccessBody(Vector("usim", n))) = Success(Vector("usim", n))
<1> DEFINE res == [i \in 1..ResMin |-> n]
           ck == [i \in 1..KeyBytes |-> IF i = 1 THEN n ELSE 0]
           ik == [i \in 1..KeyBytes |-> IF i = KeyBytes THEN 0 ELSE n]
           kc == IF trait.kc THEN [i \in 1..KcBytes |-> 0] ELSE <<>>
<1>1. Vector("usim", n) = [res |-> res, ck |-> ck, ik |-> ik, kc |-> kc]
    BY DEF Vector
<1>2. res \in Bytes /\ Len(res) = ResMin
    BY AkaNumbers DEF Bytes
<1>3. ck \in Bytes /\ Len(ck) = KeyBytes
    BY AkaNumbers DEF Bytes
<1>4. ik \in Bytes /\ Len(ik) = KeyBytes
    BY AkaNumbers DEF Bytes
<1>5. kc \in Bytes /\ (kc # <<>> => Len(kc) = KcBytes)
    <2>1. [i \in 1..KcBytes |-> 0] \in Seq(Nat) /\ Len([i \in 1..KcBytes |-> 0]) = KcBytes
        BY AkaNumbers
    <2>2. <<>> \in Seq(Nat)
        OBVIOUS
    <2> QED
        BY <2>1, <2>2 DEF Bytes
<1> HIDE DEF res, ck, ik, kc
<1>6. Len(res) \in ResMin..ResMax
    BY <1>2, AkaNumbers
<1>7. PICK v : v = Vector("usim", n)
    OBVIOUS
<1>8. ClassifyBody(SuccessBody(v)) = Success(v)
    BY <1>1, <1>2, <1>3, <1>4, <1>5, <1>6, <1>7, CardPads, KeysRead
<1> QED
    BY <1>7, <1>8

LEMMA AutsIs ==
    ASSUME NEW n \in Nat
    PROVE  Auts(n) \in Bytes /\ Len(Auts(n)) = AutsBytes /\ Auts(n)[1] = n
    BY AkaNumbers DEF Auts, Bytes

(***************************************************************************)
(* The inductive invariant: an AUTHENTICATE is only sent to the USIM, or   *)
(* to a card that re-initialised under it.                                 *)
(***************************************************************************)

AkaTypes ==
    /\ selected \in {"usim", "isim", "mf"} /\ trait \in Traits /\ sqn \in Nat
    /\ step \in {"idle", "status", "select", "authenticate"}
    /\ challenge \in [n : Nat, mac : BOOLEAN] /\ excuse \in BOOLEAN /\ got.n \in Nat
SentToTheUsim == step = "authenticate" => selected = "usim" \/ (selected = "mf" /\ excuse)
AkaIInv == AkaTypes /\ SentToTheUsim /\ VerdictIsTheUsims /\ ErrorHasACause

Told == {"nothing", "success", "sync_failure", "authentication_failure"}

LEMMA ResultIs ==
    ASSUME NEW what, NEW value
    PROVE  /\ Result(what, value).what = what /\ Result(what, value).value = value
           /\ Result(what, value).n = challenge.n /\ Result(what, value).mac = challenge.mac
    BY DEF Result

\* An error is no verdict.
LEMMA ErrorsTellNothing ==
    ASSUME NEW what, what \notin Told, got' = Result(what, <<>>)
    PROVE  VerdictIsTheUsims' /\ got'.what = what
<1>1. got'.what = what
    BY ResultIs
<1> QED
    BY <1>1 DEF VerdictIsTheUsims, Told

\* What was found out stays what it was.
LEMMA VerdictStays ==
    ASSUME AkaIInv, UNCHANGED <<got, trait>>, sqn' \in Nat, sqn' >= sqn
    PROVE  VerdictIsTheUsims'
<1>1. \A n : Vector("usim", n)' = Vector("usim", n)
    BY DEF Vector
<1>2. VerdictIsTheUsims /\ sqn \in Nat /\ got.n \in Nat
    BY DEF AkaIInv, AkaTypes
<1>3. got.what = "sync_failure" => got.n <= sqn'
    BY <1>2 DEF VerdictIsTheUsims
<1> QED
    BY <1>1, <1>2, <1>3 DEF VerdictIsTheUsims, Auts

\* What can be read: the answer itself, or a word that says it is none.
LEMMA ExchangeIs ==
    ASSUME NEW answer, NEW x \in Exchange(answer)
    PROVE  \/ x.read = answer /\ x.broke = FALSE
           \/ /\ x.broke = TRUE /\ x.read.app = "none"
              /\ x.read.sw \in {"6C00", "6F00", "exchange_failed"}
    BY DEF Exchange, Drain, Word, Answer, Failures, NoAnswer

LEMMA AkaStarts == AkaInit => AkaIInv
<1> SUFFICES ASSUME AkaInit PROVE AkaIInv
    OBVIOUS
<1>1. got.what = "nothing" /\ got.n = 0
    BY DEF AkaInit, Result
<1>2. challenge \in [n : Nat, mac : BOOLEAN]
    BY DEF AkaInit
<1>3. AkaTypes
    BY <1>1, <1>2 DEF AkaInit, AkaTypes
<1> QED
    BY <1>1, <1>3 DEF AkaInit, AkaIInv, SentToTheUsim, VerdictIsTheUsims, ErrorHasACause

LEMMA Challenges == ASSUME AkaIInv, Challenge PROVE AkaIInv'
<1>1. UNCHANGED <<selected, trait, sqn, stale, cardEvents>> /\ step = "idle"
    BY DEF Challenge
<1>2. CASE /\ \E n \in 1..2, mac \in BOOLEAN : challenge' = [n |-> n, mac |-> mac]
           /\ excuse' = FALSE /\ step' = "status" /\ UNCHANGED got
    <2>1. VerdictIsTheUsims'
        BY <1>1, <1>2, VerdictStays DEF AkaIInv, AkaTypes
    <2>2. challenge' \in [n : Nat, mac : BOOLEAN]
        BY <1>2
    <2>3. AkaTypes'
        BY <1>1, <1>2, <2>2 DEF AkaIInv, AkaTypes
    <2> QED
        BY <1>2, <2>1, <2>3 DEF AkaIInv, SentToTheUsim, ErrorHasACause
<1>3. CASE /\ got' = Result("bad_challenge_length", <<>>) /\ excuse' = TRUE
           /\ UNCHANGED <<step, challenge>>
    <2>1. VerdictIsTheUsims'
        BY <1>3, ErrorsTellNothing DEF Told
    <2>2. got'.n \in Nat
        BY <1>3, ResultIs DEF AkaIInv, AkaTypes
    <2>3. AkaTypes'
        BY <1>1, <1>3, <2>2 DEF AkaIInv, AkaTypes
    <2> QED
        BY <1>1, <1>3, <2>1, <2>3 DEF AkaIInv, SentToTheUsim, ErrorHasACause
<1> QED
    BY <1>2, <1>3 DEF Challenge, Proceeds

\* An authentication that goes on.
LEMMA GoesOn ==
    ASSUME AkaIInv, NEW next \in {"select", "authenticate"}, Proceeds(next),
           UNCHANGED <<trait, sqn, challenge>>, selected' \in {"usim", "isim", "mf"}, excuse' \in BOOLEAN,
           next = "authenticate" => selected' = "usim"
    PROVE  AkaIInv'
<1>1. step' = next /\ UNCHANGED got
    BY DEF Proceeds
<1>2. VerdictIsTheUsims'
    BY <1>1, VerdictStays DEF AkaIInv, AkaTypes
<1>3. AkaTypes'
    BY <1>1 DEF AkaIInv, AkaTypes
<1> QED
    BY <1>1, <1>2, <1>3 DEF AkaIInv, SentToTheUsim, ErrorHasACause

\* An authentication that ends in an error, for which there is a cause.
LEMMA EndsInError ==
    ASSUME AkaIInv, NEW what, what \notin Told, Ends(Result(what, <<>>)),
           UNCHANGED <<trait, challenge>>, sqn' \in Nat, selected' \in {"usim", "isim", "mf"},
           excuse' \in BOOLEAN, excuse' \/ trait.select # "goes"
    PROVE  AkaIInv'
<1>1. step' = "idle" /\ got' = Result(what, <<>>)
    BY DEF Ends
<1>2. VerdictIsTheUsims'
    BY <1>1, ErrorsTellNothing
<1>3. got'.n \in Nat
    BY <1>1, ResultIs DEF AkaIInv, AkaTypes
<1>4. AkaTypes'
    BY <1>1, <1>3 DEF AkaIInv, AkaTypes
<1> QED
    BY <1>1, <1>2, <1>4 DEF AkaIInv, SentToTheUsim, ErrorHasACause

LEMMA HearsIs ==
    ASSUME AkaIInv, NEW x, x.broke \in BOOLEAN, Hears(x)
    PROVE  excuse' \in BOOLEAN /\ (x.broke => excuse') /\ (excuse => excuse')
    BY DEF AkaIInv, AkaTypes, Hears

LEMMA AsksStatus == ASSUME AkaIInv, VerifyUsimSelected PROVE AkaIInv'
<1>1. PICK x \in Exchange(StatusAnswer) :
         /\ Hears(x)
         /\ CASE x.read.sw \in Failures -> Ends(Result(x.read.sw, <<>>))
              [] IsSelectionVerdict(x.read) -> Proceeds("select")
              [] OTHER -> Proceeds("authenticate")
    BY DEF VerifyUsimSelected
<1>2. UNCHANGED <<selected, trait, sqn, challenge>> /\ sqn' \in Nat /\ selected' \in {"usim", "isim", "mf"}
    BY DEF VerifyUsimSelected, AkaIInv, AkaTypes
<1>3. \/ x.read = StatusAnswer /\ x.broke = FALSE
      \/ x.broke = TRUE /\ x.read.sw \in {"6C00", "6F00", "exchange_failed"}
    BY ExchangeIs
<1>4. excuse' \in BOOLEAN /\ (x.broke => excuse')
    <2>1. Hears(x)
        BY <1>1, Zenon
    <2>2. x.broke \in BOOLEAN
        BY <1>3
    <2> QED
        BY <2>1, <2>2, HearsIs
<1>5. CASE x.read.sw \in Failures
    <2>1. x.read.sw = "exchange_failed" /\ Ends(Result("exchange_failed", <<>>))
        <3>1. ~IsSelectionVerdict(x.read)
            BY <1>5 DEF IsSelectionVerdict
        <3>2. step' = "idle" /\ got' = Result(x.read.sw, <<>>)
            BY <1>1, <1>5, <3>1 DEF Ends
        <3>3. x.read.sw = "exchange_failed"
            BY <1>5 DEF Failures
        <3> QED
            BY <3>2, <3>3 DEF Ends
    <2>2. x.broke
        BY <1>3, <2>1 DEF StatusAnswer, Answer
    <2> QED
        BY <1>2, <1>4, <2>1, <2>2, EndsInError DEF Told
<1>6. CASE x.read.sw \notin Failures /\ IsSelectionVerdict(x.read)
    <2>1. Proceeds("select")
        BY <1>1, <1>6
    <2> QED
        BY <1>2, <1>4, <2>1, GoesOn
<1>7. CASE x.read.sw \notin Failures /\ ~IsSelectionVerdict(x.read)
    <2>1. Proceeds("authenticate")
        BY <1>1, <1>7
    <2>2. x.read.sw = "9000" /\ UsimAidOf(x.read) = "usim"
        BY <1>7 DEF IsSelectionVerdict
    <2>3. x.read = StatusAnswer
        BY <1>3, <2>2
    <2>4. selected = "usim"
        BY <2>2, <2>3 DEF StatusAnswer, Answer, UsimAidOf
    <2> QED
        BY <1>2, <1>4, <2>1, <2>4, GoesOn
<1> QED
    BY <1>5, <1>6, <1>7

LEMMA SelectsUsim == ASSUME AkaIInv, SelectUsimAdf PROVE AkaIInv'
<1>1. PICK x \in Exchange(SelectAnswer) :
         /\ Hears(x)
         /\ selected' \in IF x.broke THEN {selected, SelectGoesTo} ELSE {SelectGoesTo}
         /\ CASE x.read.sw \in Failures -> Ends(Result(x.read.sw, <<>>))
              [] x.read.sw \notin Failures \cup {"9000"} -> Ends(Result("usim_select_refused", <<>>))
              [] x.read.sw = "9000" /\ UsimAidOf(x.read) # "usim" ->
                   Ends(Result(UsimAidOf(x.read), <<>>))
              [] OTHER -> Proceeds("authenticate")
    BY DEF SelectUsimAdf
<1>2. UNCHANGED <<trait, sqn, challenge>> /\ sqn' \in Nat /\ trait \in Traits /\ selected \in {"usim", "isim", "mf"}
    BY DEF SelectUsimAdf, AkaIInv, AkaTypes
<1>3. \/ x.read = SelectAnswer /\ x.broke = FALSE
      \/ x.broke = TRUE /\ x.read.sw \in {"6C00", "6F00", "exchange_failed"}
    BY ExchangeIs
<1>4. excuse' \in BOOLEAN /\ (x.broke => excuse')
    <2>1. Hears(x)
        BY <1>1, Zenon
    <2>2. x.broke \in BOOLEAN
        BY <1>3
    <2> QED
        BY <2>1, <2>2, HearsIs
<1>5. SelectGoesTo \in {"usim", "isim", "mf"} /\ selected' \in {"usim", "isim", "mf"}
    <2>1. SelectGoesTo \in {"usim", "isim", "mf"}
        BY <1>2 DEF SelectGoesTo
    <2>2. selected' \in {selected, SelectGoesTo}
        BY <1>1
    <2> QED
        BY <1>2, <2>1, <2>2
<1>6. CASE x.broke = FALSE /\ trait.select = "goes"
    <2>1. x.read.sw = "9000" /\ UsimAidOf(x.read) = "usim" /\ SelectGoesTo = "usim"
        BY <1>3, <1>6 DEF SelectAnswer, SelectGoesTo, Answer, UsimAidOf
    <2>2. x.read.sw \notin Failures
        BY <2>1 DEF Failures
    <2>3. Proceeds("authenticate") /\ selected' = "usim"
        BY <1>1, <1>6, <2>1, <2>2
    <2> QED
        BY <1>2, <1>4, <2>3, GoesOn
<1>7. CASE x.broke = TRUE \/ trait.select # "goes"
    <2>1. excuse' \/ trait.select # "goes"
        BY <1>4, <1>7
    <2>2. CASE x.read.sw \in Failures
        <3>1. x.read.sw = "exchange_failed" /\ x.read.sw # "9000"
            BY <2>2 DEF Failures
        <3>2. step' = "idle" /\ got' = Result(x.read.sw, <<>>)
            BY <1>1, <2>2, <3>1 DEF Ends
        <3>3. Ends(Result("exchange_failed", <<>>))
            BY <3>1, <3>2 DEF Ends
        <3> QED
            BY <1>2, <1>4, <1>5, <2>1, <3>3, EndsInError DEF Told
    <2>3. CASE x.read.sw \notin Failures \cup {"9000"}
        <3>1. Ends(Result("usim_select_refused", <<>>))
            BY <1>1, <2>3
        <3> QED
            BY <1>2, <1>4, <1>5, <2>1, <3>1, EndsInError DEF Told
    <2>4. CASE x.read.sw \notin Failures /\ x.read.sw = "9000"
        <3>1. x.read = SelectAnswer /\ trait.select = "elsewhere"
            BY <1>2, <1>3, <1>7, <2>4 DEF SelectAnswer, Answer, Traits
        <3>2. UsimAidOf(x.read) = "not_usim_adf"
            BY <3>1 DEF SelectAnswer, SelectGoesTo, Answer, UsimAidOf
        <3>3. Ends(Result("not_usim_adf", <<>>))
            BY <1>1, <2>4, <3>2
        <3> QED
            BY <1>2, <1>4, <1>5, <2>1, <3>3, EndsInError DEF Told
    <2> QED
        BY <2>2, <2>3, <2>4
<1> QED
    BY <1>3, <1>6, <1>7

\* What an exchange that gave no whole answer is called.
LEMMA WordsAreErrors ==
    ASSUME NEW r, r.sw \in {"6C00", "6F00", "6985"}
    PROVE  ClassifyAuthenticate(r) = Result("unknown_status_word", <<>>)
    BY DEF ClassifyAuthenticate

LEMMA RejectionIs ==
    ASSUME NEW r, r.sw = "9862"
    PROVE  ClassifyAuthenticate(r) = Result("authentication_failure", <<>>)
    BY DEF ClassifyAuthenticate

LEMMA BodyIsRead ==
    ASSUME NEW r, NEW b, r = Answer("9000", "none", b)
    PROVE  ClassifyAuthenticate(r) = ClassifyBody(b)
<1>1. r.sw = "9000" /\ r.body = b
    BY DEF Answer
<1> QED
    BY <1>1 DEF ClassifyAuthenticate

\* The four answers of the card.
LEMMA AnswersOfTheCard ==
    /\ selected = "mf" => AuthenticateAnswer = Answer("6985", "none", <<>>)
    /\ selected = "usim" /\ ~challenge.mac => AuthenticateAnswer = Answer("9862", "none", <<>>)
    /\ selected = "usim" /\ challenge.mac /\ challenge.n <= sqn =>
         AuthenticateAnswer = Answer("9000", "none", SyncBody(Auts(sqn)))
    /\ selected = "usim" /\ challenge.mac /\ ~(challenge.n <= sqn) =>
         AuthenticateAnswer = Answer("9000", "none", SuccessBody(Vector("usim", challenge.n)))
    BY DEF AuthenticateAnswer

\* An authentication that ends in a verdict of the card.
LEMMA EndsInVerdict ==
    ASSUME AkaIInv, NEW what \in Told, NEW value, step' = "idle", got' = Result(what, value),
           UNCHANGED <<selected, trait, challenge>>, sqn' \in Nat, excuse' \in BOOLEAN,
           what = "success" => challenge.mac /\ value = Vector("usim", challenge.n),
           what = "sync_failure" => challenge.mac /\ challenge.n <= sqn' /\ value = Auts(value[1]),
           what = "authentication_failure" => ~challenge.mac
    PROVE  AkaIInv'
<1>1. /\ got'.what = what /\ got'.value = value
      /\ got'.n = challenge.n /\ got'.mac = challenge.mac
    BY ResultIs
<1>2. \A n : Vector("usim", n)' = Vector("usim", n)
    BY DEF Vector
<1>3. \A n : Auts(n)' = Auts(n)
    BY DEF Auts
<1>4. VerdictIsTheUsims'
    <2>1. got'.what = "success" => got'.mac /\ got'.value = Vector("usim", got'.n)
        BY <1>1
    <2>2. got'.what = "sync_failure" => got'.mac /\ got'.n <= sqn' /\ got'.value = Auts(got'.value[1])
        BY <1>1
    <2>3. got'.what = "authentication_failure" => ~got'.mac
        BY <1>1
    <2>4. Vector("usim", got.n)' = Vector("usim", got'.n)
        BY DEF Vector
    <2>5. Auts(got.value[1])' = Auts(got'.value[1])
        BY DEF Auts
    <2> QED
        BY <2>1, <2>2, <2>3, <2>4, <2>5 DEF VerdictIsTheUsims
<1>5. AkaTypes'
    BY <1>1 DEF AkaIInv, AkaTypes
<1> QED
    BY <1>1, <1>4, <1>5 DEF AkaIInv, SentToTheUsim, ErrorHasACause, Told

LEMMA Authenticates == ASSUME AkaIInv, Authenticate PROVE AkaIInv'
<1> DEFINE accepts == selected = "usim" /\ challenge.mac /\ challenge.n > sqn
<1>1. PICK x \in Exchange(AuthenticateAnswer) :
         /\ Hears(x)
         /\ sqn' \in IF ~accepts THEN {sqn} ELSE IF x.broke THEN {sqn, challenge.n} ELSE {challenge.n}
         /\ Ends(IF x.read.sw \in Failures THEN Result(x.read.sw, <<>>)
                 ELSE ClassifyAuthenticate(x.read))
    BY DEF Authenticate
<1>2. UNCHANGED <<selected, trait, challenge>> /\ step = "authenticate"
    BY DEF Authenticate
<1>3. /\ trait \in Traits /\ sqn \in Nat /\ challenge \in [n : Nat, mac : BOOLEAN]
      /\ selected \in {"usim", "isim", "mf"} /\ excuse \in BOOLEAN
    BY DEF AkaIInv, AkaTypes
<1>4. challenge.n \in Nat /\ challenge.mac \in BOOLEAN
    BY <1>3
<1>5. sqn' \in {sqn, challenge.n} /\ sqn' \in Nat
    BY <1>1, <1>3, <1>4
<1>6. \/ x.read = AuthenticateAnswer /\ x.broke = FALSE
      \/ x.broke = TRUE /\ x.read.sw \in {"6C00", "6F00", "exchange_failed"}
    BY ExchangeIs
<1>7. excuse' \in BOOLEAN /\ (x.broke => excuse') /\ (excuse => excuse')
    <2>1. Hears(x)
        BY <1>1, Zenon
    <2>2. x.broke \in BOOLEAN
        BY <1>6
    <2> QED
        BY <2>1, <2>2, HearsIs
<1>8. step' = "idle" /\ got' = IF x.read.sw \in Failures THEN Result(x.read.sw, <<>>)
                                ELSE ClassifyAuthenticate(x.read)
    BY <1>1, Zenon DEF Ends
<1>9. ASSUME NEW what, what \notin Told, got' = Result(what, <<>>), excuse' PROVE AkaIInv'
    <2>1. Ends(Result(what, <<>>))
        BY <1>8, <1>9 DEF Ends
    <2> QED
        BY <1>2, <1>3, <1>5, <1>7, <1>9, <2>1, EndsInError
<1>10. CASE x.broke = TRUE /\ x.read.sw \in {"6C00", "6F00", "exchange_failed"}
    <2>1. CASE x.read.sw = "exchange_failed"
        <3>1. got' = Result("exchange_failed", <<>>)
            BY <1>8, <2>1 DEF Failures
        <3> QED
            BY <1>7, <1>9, <1>10, <3>1 DEF Told
    <2>2. CASE x.read.sw \in {"6C00", "6F00"}
        <3>1. x.read.sw \notin Failures
            BY <2>2 DEF Failures
        <3>2. ClassifyAuthenticate(x.read) = Result("unknown_status_word", <<>>)
            BY <2>2, WordsAreErrors
        <3>3. got' = Result("unknown_status_word", <<>>)
            BY <1>8, <3>1, <3>2
        <3> QED
            BY <1>7, <1>9, <1>10, <3>3 DEF Told
    <2> QED
        BY <1>10, <2>1, <2>2
<1>11. CASE x.read = AuthenticateAnswer /\ x.broke = FALSE
    <2>1. PICK r : r = AuthenticateAnswer /\ r = x.read
        BY <1>11
    <2>2. ASSUME r.sw \notin Failures PROVE got' = ClassifyAuthenticate(r)
        BY <1>8, <2>1, <2>2
    <2>3. "6985" \notin Failures /\ "9862" \notin Failures /\ "9000" \notin Failures
        BY DEF Failures
    <2>4. \A sw, b : Answer(sw, "none", b).sw = sw
        BY DEF Answer
    <2>5. CASE selected = "mf"
        <3>1. r.sw = "6985" /\ excuse
            BY <1>2, <2>1, <2>4, <2>5, AnswersOfTheCard DEF AkaIInv, SentToTheUsim
        <3>2. got' = Result("unknown_status_word", <<>>)
            BY <2>2, <2>3, <3>1, WordsAreErrors
        <3> QED
            BY <1>7, <1>9, <3>1, <3>2 DEF Told
    <2>6. CASE selected = "usim" /\ ~challenge.mac
        <3>1. r.sw = "9862"
            BY <2>1, <2>4, <2>6, AnswersOfTheCard
        <3>2. got' = Result("authentication_failure", <<>>)
            BY <2>2, <2>3, <3>1, RejectionIs
        <3> QED
            BY <1>2, <1>5, <1>7, <1>8, <2>6, <3>2, EndsInVerdict DEF Told
    <2>7. CASE selected = "usim" /\ challenge.mac /\ challenge.n <= sqn
        <3>1. PICK a \in Bytes : a = Auts(sqn) /\ Len(a) = AutsBytes /\ a[1] = sqn
            BY <1>3, AutsIs
        <3>2. r = Answer("9000", "none", SyncBody(a)) /\ r.sw = "9000"
            BY <2>1, <2>4, <2>7, <3>1, AnswersOfTheCard
        <3>3. got' = Result("sync_failure", a)
            BY <1>3, <2>2, <2>3, <3>1, <3>2, BodyIsRead, CardPads, AutsRead
        <3>4. sqn' = sqn
            BY <1>1, <1>3, <1>4, <2>7
        <3> QED
            BY <1>2, <1>5, <1>7, <1>8, <2>7, <3>1, <3>3, <3>4, EndsInVerdict DEF Told
    <2>8. CASE selected = "usim" /\ challenge.mac /\ ~(challenge.n <= sqn)
        <3>1. PICK v : v = Vector("usim", challenge.n)
            OBVIOUS
        <3>2. r = Answer("9000", "none", SuccessBody(v)) /\ r.sw = "9000"
            BY <2>1, <2>4, <2>8, <3>1, AnswersOfTheCard
        <3>3. ClassifyBody(SuccessBody(v)) = Success(v)
            BY <1>3, <1>4, <3>1, VectorRead
        <3>4. got' = Result("success", v)
            BY <2>2, <2>3, <3>2, <3>3, BodyIsRead DEF Success
        <3> QED
            BY <1>2, <1>5, <1>7, <1>8, <2>8, <3>1, <3>4, EndsInVerdict DEF Told
    <2> QED
        BY <1>2, <2>5, <2>6, <2>7, <2>8 DEF AkaIInv, SentToTheUsim
<1> QED
    BY <1>6, <1>10, <1>11

\* What happens to the card between the agent's steps.
LEMMA CardMoves ==
    ASSUME AkaIInv, UNCHANGED <<trait, sqn, step, challenge, got>>,
           selected' \in {"usim", "isim", "mf"}, excuse' \in BOOLEAN, excuse => excuse',
           step = "idle" \/ (selected' = "mf" /\ excuse')
    PROVE  AkaIInv'
<1>1. VerdictIsTheUsims'
    BY VerdictStays DEF AkaIInv, AkaTypes
<1>2. AkaTypes'
    BY DEF AkaIInv, AkaTypes
<1> QED
    BY <1>1, <1>2 DEF AkaIInv, SentToTheUsim, ErrorHasACause

LEMMA AkaStep == AkaIInv /\ [AkaNext]_akaVars => AkaIInv'
<1> SUFFICES ASSUME AkaIInv, [AkaNext]_akaVars PROVE AkaIInv'
    OBVIOUS
<1>1. CASE Reinitialise
    <2>1. excuse' \in BOOLEAN /\ (excuse => excuse') /\ (step = "idle" \/ excuse')
        BY <1>1 DEF Reinitialise, AkaIInv, AkaTypes
    <2> QED
        BY <1>1, <2>1, CardMoves DEF Reinitialise
<1>2. CASE SelectedByOthers
    BY <1>2, CardMoves DEF SelectedByOthers, AkaIInv, AkaTypes
<1>3. CASE UNCHANGED akaVars
    <2>1. UNCHANGED <<trait, sqn, step, challenge, got, selected, excuse>>
        BY <1>3 DEF akaVars
    <2>2. VerdictIsTheUsims'
        BY <2>1, VerdictStays DEF AkaIInv, AkaTypes
    <2> QED
        BY <2>1, <2>2 DEF AkaIInv, AkaTypes, SentToTheUsim, ErrorHasACause
<1> QED
    BY <1>1, <1>2, <1>3, Challenges, AsksStatus, SelectsUsim, Authenticates DEF AkaNext

\* What is said of a card is what its USIM said, and an error has a cause in the
\* exchange, for every length of the fields (usim_authenticate, classify_body).
THEOREM AkaInvariant == AkaSpec => []AkaInv
<1>1. AkaIInv => AkaInv
    BY DEF AkaIInv, AkaInv
<1> QED
    BY <1>1, AkaStarts, AkaStep, PTL DEF AkaSpec

(***************************************************************************)
(* The host.                                                               *)
(***************************************************************************)

LEMMA RulesOfTheHost == HostSpec => RulesSpec
<1>1. HostInit => RulesInit
    BY DEF HostInit
<1>2. [HostNext]_hostVars => [RulesNext]_ruleVars
    <2> SUFFICES ASSUME [HostNext]_hostVars, ~RulesNext PROVE UNCHANGED ruleVars
        OBVIOUS
    <2>1. CASE HostNext
        BY <2>1 DEF HostNext
    <2>2. CASE UNCHANGED hostVars
        BY <2>2 DEF hostVars
    <2> QED
        BY <2>1, <2>2
<1> QED
    BY <1>1, <1>2, PTL DEF HostSpec, RulesSpec

LEMMA CardOfTheHost == HostSpec => AkaSpec
<1>1. HostInit => AkaInit
    BY DEF HostInit
<1>2. [HostNext]_hostVars => [AkaNext]_akaVars
    <2> SUFFICES ASSUME [HostNext]_hostVars, ~AkaNext PROVE UNCHANGED akaVars
        OBVIOUS
    <2>1. CASE HostNext
        BY <2>1 DEF HostNext
    <2>2. CASE UNCHANGED hostVars
        BY <2>2 DEF hostVars
    <2> QED
        BY <2>1, <2>2
<1> QED
    BY <1>1, <1>2, PTL DEF HostSpec, AkaSpec

\* Answers hold on every host: those of the rules can be acted on, with the
\* exception of a card in place that a QMI poll failed to read, and what is said of
\* a card is what its USIM said (resolve, operating_context, usim_authenticate).
THEOREM AnswersAlwaysHold == HostSpec => []AnswersHold
<1>1. RulesInv /\ AkaInv => AnswersHold
    BY DEF AnswersHold
<1> QED
    BY <1>1, RulesOfTheHost, CardOfTheHost, RulesInvariant, AkaInvariant, PTL
=============================================================================
