---------------------------- MODULE DataPlane -----------------------------
(***************************************************************************)
(* The data path of the modules: the session held with the module, the     *)
(* interface, route and rule in the kernel, and the card policies that     *)
(* hold it down (edge-bin/src/main.rs, Radio::start_data and stop_data,    *)
(* set_data_network, update_card_policies, configure_apn; edge-modem/src/  *)
(* wwan.rs).                                                               *)
(*                                                                         *)
(* One thread executes the commands; between two leases of a command the   *)
(* poll may learn of another card, and a module may turn up at the node    *)
(* another is remembered under.  A kernel step may fail; so may the module *)
(* at every question and the store at every read.                          *)
(***************************************************************************)
EXTENDS Naturals, Sequences

CONSTANTS QmiModule, AtModule,   \* with a QMI port, and with AT only
          PlanCard,              \* cards that may have a data policy
          Address,               \* what the network assigns
          MaxCommands            \* bound: commands executed

DataModule == QmiModule \cup AtModule
UnknownCard == "no card"
NoAddress == "no address"
NoModule == "no module"

ASSUME DataAssumption ==
    /\ QmiModule \cap AtModule = {}
    /\ UnknownCard \notin PlanCard /\ NoAddress \notin Address /\ NoModule \notin DataModule
    /\ MaxCommands \in Nat

VARIABLES
    known,     \* the ICCID the store has for each module
    policy,    \* CardPolicy::cellular_enabled: "on", "off", or "none" on record
    net,       \* each module's interface: addresses, default route, rules
    sess,      \* Radio::sessions, and whose interface each was opened on
    bearer,    \* AT modules whose context 1 is active
    context,   \* context 1 of each module: an APN, and whether it has credentials
    cmd,       \* the command being executed
    troubled,  \* interfaces left with an address: the trouble was reported, the
               \* agent stopped, or the session went on to another interface
    commands

dataVars == <<known, policy, net, sess, bearer, context, cmd, troubled, commands>>

NoSession == [addr |-> NoAddress, card |-> UnknownCard, on |-> NoModule]
Bare == [addrs |-> {}, route |-> FALSE, rules |-> {}]
NoCmd == [op |-> "none", on |-> {}, named |-> {}, listed |-> TRUE, card |-> UnknownCard]

DataInit ==
    /\ known \in [DataModule -> PlanCard \cup {UnknownCard}]
    /\ policy = [c \in PlanCard |-> "none"]
    /\ net = [m \in DataModule |-> Bare]
    /\ sess = [m \in DataModule |-> NoSession]
    /\ bearer = {}
    /\ context = [m \in DataModule |-> [apn |-> TRUE, cred |-> TRUE]]
    /\ cmd = NoCmd
    /\ troubled = {}
    /\ commands = 0

-----------------------------------------------------------------------------
(* The kernel: wwan.rs *)

\* run_step: what one step does to the interface.
RunStep(l, s) ==
    CASE s.do = "down"        -> [l EXCEPT !.route = FALSE]
      [] s.do = "flush"       -> [l EXCEPT !.addrs = {}]
      [] s.do = "flush_route" -> [l EXCEPT !.route = FALSE]
      [] s.do = "addr"        -> [l EXCEPT !.addrs = @ \cup {s.a}]
      [] s.do = "route"       -> [l EXCEPT !.route = TRUE]
      [] s.do = "rule_del"    -> [l EXCEPT !.rules = @ \ {s.a}]
      [] s.do = "rule_add"    -> [l EXCEPT !.rules = @ \cup {s.a}]
      [] OTHER -> l

\* Each step in turn: how the interface looks when the first k have been
\* carried out.  A tolerant step never stops the sequence.
Steps(link, todo, k) ==
    LET after[i \in 0..Len(todo)] ==
            IF i = 0 THEN link ELSE RunStep(after[i - 1], todo[i])
    IN  after[k]

Do(what, a) == [do |-> what, a |-> a]

\* bring_up.  A tolerant flush that fails is taken to mean "already so", and
\* leaves the addresses that are there.
BringUp(a, flush) ==
    << Do("down", a), Do(flush, a), Do("up", a), Do("addr", a), Do("route", a),
       Do("rule_del", a), Do("rule_add", a) >>

\* tear_down: the rule before the address it matches on.
TearDown(a) == << Do("rule_del", a), Do("flush_route", a), Do("flush", a), Do("down", a) >>

\* A tear-down whose two last steps both may fail.
TearDownOutcomes(link, a) ==
    {[link |-> Steps(link, TearDown(a), 4), ok |-> TRUE],
     [link |-> Steps(link, TearDown(a), 2), ok |-> FALSE]}

-----------------------------------------------------------------------------
(* The card's policy *)

\* Mutant: a policy that cannot be read restricts nothing.
CellularAllowsDataMutant(read) == read # "off"

\* cellular_allows_data.
CellularAllowsData(read) == read \in {"on", "none"}

\* The policy of the card the store has for the module, as the gate reads it.
CardPolicyRead(m) ==
    IF known[m] = UnknownCard THEN {"none", "unreadable"}
                         ELSE {policy[known[m]], "unreadable"}

\* modems_to_drop: the modules the store has an off card for.
ModemsToDrop(off) == {m \in DataModule : known[m] \in off}

-----------------------------------------------------------------------------
(* set_data_network *)

Begin(c) ==
    /\ cmd = NoCmd
    /\ commands < MaxCommands
    /\ commands' = commands + 1
    /\ cmd' = c

\* The gates: refuse_unsupported, then the card's own policy.
AllowData(m) ==
    /\ \/ /\ \E read \in CardPolicyRead(m) : CellularAllowsData(read)
          /\ Begin([NoCmd EXCEPT !.op = "apn", !.on = {m}, !.card = known[m]])
       \/ Begin(NoCmd)
    /\ UNCHANGED <<known, policy, net, sess, bearer, context, troubled>>

\* apn_for_data: context 1, off the module.
ApnForData(m) ==
    /\ cmd.op = "apn" /\ m \in cmd.on
    /\ cmd' \in {NoCmd} \cup IF context[m].apn THEN {[cmd EXCEPT !.op = "start"]} ELSE {}
    /\ UNCHANGED <<known, policy, net, sess, bearer, context, troubled, commands>>

\* start_data, in one lease, on whichever module is at the remembered node by
\* now: nobody asks it who it is.  Its early failures leave the link down and
\* nothing else changed; a step of bring_up that fails is undone as far as the
\* undoing works; a session that was held before is replaced, and nothing
\* takes down the interface it had.
StartData(m) ==
    /\ cmd.op = "start" /\ m \in cmd.on
    /\ m \in QmiModule
    /\ \E on \in QmiModule :
         \/ /\ net' = [net EXCEPT ![on].route = FALSE]
            /\ UNCHANGED <<sess, troubled>>
         \/ \E a \in Address, flush \in {"flush", "fails"}, k \in {0, 2, 3, 4, 6} :
              \E undone \in TearDownOutcomes(Steps(net[on], BringUp(a, flush), k), a) :
                 /\ net' = [net EXCEPT ![on] = undone.link]
                 /\ troubled' = IF undone.ok THEN troubled ELSE troubled \cup {on}
                 /\ UNCHANGED sess
         \/ \E a \in Address, flush \in {"flush", "fails"} :
                 /\ net' = [net EXCEPT ![on] = Steps(@, BringUp(a, flush), 7)]
                 /\ sess' = [sess EXCEPT ![m] = [addr |-> a, card |-> cmd.card, on |-> on]]
                 /\ troubled' = (troubled \cup {sess[m].on}) \ {on, NoModule}
    /\ cmd' = NoCmd
    /\ UNCHANGED <<known, policy, bearer, context, commands>>

\* A module without QMI, or not met since the agent started: modem_not_found,
\* and AT+CGACT=1,1 instead.
AttachBearer(m) ==
    /\ cmd.op = "start" /\ m \in cmd.on
    /\ bearer' \in {bearer, bearer \cup {m}}
    /\ cmd' = NoCmd
    /\ UNCHANGED <<known, policy, net, sess, context, troubled, commands>>

\* stop_data: the session is forgotten and its interface taken down whatever
\* the module answers.
StopData(m) ==
    /\ sess' = [sess EXCEPT ![m] = NoSession]
    /\ \/ sess[m] = NoSession /\ UNCHANGED <<net, troubled>>
       \/ /\ sess[m] # NoSession
          /\ LET on == sess[m].on
             IN  \E torn \in TearDownOutcomes(net[on], sess[m].addr) :
                    /\ net' = [net EXCEPT ![on] = torn.link]
                    /\ troubled' = IF torn.ok THEN troubled ELSE troubled \cup {on}

\* set_data_network(false).  Without a session stop_data answers
\* no_data_session, which is no reason to try AT.
SetDataOff(m) ==
    /\ Begin(NoCmd)
    /\ StopData(m)
    /\ UNCHANGED <<known, policy, bearer, context>>

-----------------------------------------------------------------------------
\* update_card_policies: the whole set is replaced, then the modules the store
\* has an off card for are stopped, one lease each.  A set that cannot be
\* written changes nothing; a list of modules that cannot be read
\* (unwrap_or_default) is an empty one, and the push succeeds all the same.
StorePolicies ==
    /\ \/ Begin(NoCmd) /\ UNCHANGED policy
       \/ \E set \in [PlanCard -> {"on", "off", "none"}], listed \in BOOLEAN :
             /\ policy' = set
             /\ LET named == ModemsToDrop({c \in PlanCard : set[c] = "off"})
                IN  Begin([NoCmd EXCEPT !.op = "push", !.named = named, !.listed = listed,
                                        !.on = IF listed THEN named ELSE {}])
    /\ UNCHANGED <<known, net, sess, bearer, context, troubled>>

DropOne(m) ==
    /\ cmd.op = "push" /\ m \in cmd.on
    /\ StopData(m)
    /\ cmd' = [cmd EXCEPT !.on = @ \ {m}]
    /\ UNCHANGED <<known, policy, bearer, context, commands>>

PushDone ==
    /\ cmd.op = "push" /\ cmd.on = {}
    /\ cmd' = NoCmd
    /\ UNCHANGED <<known, policy, net, sess, bearer, context, troubled, commands>>

\* configure_apn: the context is rewritten whole.  A request that names no
\* credentials puts back those read before the write; when that reading failed
\* there are none to put back.
ConfigureApn(m) ==
    /\ Begin(NoCmd)
    /\ \E names, read, taken \in BOOLEAN :
          context' = IF taken
                     THEN [context EXCEPT ![m] = [apn |-> TRUE, cred |-> names \/ (read /\ @.cred)]]
                     ELSE context
    /\ UNCHANGED <<known, policy, net, sess, bearer, troubled>>

\* The poll reads a module's card.
LearnCard(m) ==
    /\ known' \in {[known EXCEPT ![m] = c] : c \in (PlanCard \cup {UnknownCard}) \ {known[m]}}
    /\ UNCHANGED <<policy, net, sess, bearer, context, cmd, troubled, commands>>

\* The agent stops: the sessions go with it, the kernel and the modules stay.
DataStop ==
    /\ sess' = [m \in DataModule |-> NoSession]
    /\ cmd' = NoCmd
    /\ troubled' = DataModule
    /\ UNCHANGED <<known, policy, net, bearer, context, commands>>

DataNext ==
    \/ \E m \in DataModule : \/ AllowData(m) \/ ApnForData(m) \/ StartData(m) \/ AttachBearer(m)
                         \/ SetDataOff(m) \/ DropOne(m) \/ ConfigureApn(m) \/ LearnCard(m)
    \/ StorePolicies \/ PushDone \/ DataStop

DataSpec == DataInit /\ [][DataNext]_dataVars

-----------------------------------------------------------------------------
(* Properties *)

\* An interface has an address only while the agent holds a session on it with
\* one of its addresses: everything downstream reads an address as connected.
\* Three things leave one behind: an undoing that failed, which was reported; a
\* stop of the agent; and a second start of a module whose node had passed to
\* another meanwhile, which replaces the session and leaves the interface
\* (start_data, stop_data).
NoGhostLink ==
    \A m \in QmiModule \ troubled :
        net[m].addrs # {} => \E x \in DataModule : sess[x].on = m /\ sess[x].addr \in net[m].addrs

\* Data of a card that is switched off stays down: no session begins for a
\* module whose card the gate found off, or could not find out about, and the
\* push that switches a card off ends without a session for any module the
\* store had the card for, if the store could list the modules
\* (cellular_allows_data, modems_to_drop).  When it could not, the push says
\* it succeeded and stops nobody.
HeldDown ==
    [][/\ \A m \in DataModule : sess'[m] # NoSession /\ sess'[m] # sess[m] /\ sess'[m].card # UnknownCard
             => policy[sess'[m].card] # "off"
       /\ cmd.op = "push" /\ cmd'.op # "push" /\ cmd.on = {} /\ cmd.listed
             => \A m \in cmd.named : sess[m] = NoSession
      ]_dataVars

\* Both: the agent's idea of a card's data is what the module does.
DataAsTold == []NoGhostLink /\ HeldDown
=============================================================================
