---------------------------- MODULE ProxyManager ----------------------------
(***************************************************************************)
(* The SOCKS5 listeners the edge runs for the cloud (edge-proxy), and the  *)
(* three commands and the traffic report that drive them (edge-bin).       *)
(*                                                                         *)
(* Three parties run at once: the command executor, which reconciles the   *)
(* listeners with what the cloud wants one locked step at a time; the      *)
(* tokio tasks of the listeners and of their connections; and the poll     *)
(* loop, which drains the counters.  `abort' is asynchronous: an aborted   *)
(* listener keeps its port until the runtime has dropped its task, and the *)
(* connection tasks it spawned are not aborted at all.                     *)
(*                                                                         *)
(* Addresses, credentials and payloads are tokens.  A connection carries   *)
(* one unit of traffic, counted where the code counts it: when it ends.    *)
(***************************************************************************)
EXTENDS Naturals, FiniteSets

CONSTANTS
  Instance,      \* the ids of the listeners
  Interface,     \* the names of network interfaces
  UpstreamId,    \* the ids of upstream proxies
  SpecChoice,    \* the instance specifications the cloud may send
  UpstreamChoice,\* the upstream specifications the cloud may send
  MaxProxyOps,   \* bound: proxy commands in one behaviour
  MaxClients     \* bound: connections accepted in one behaviour

NoUpstream == [enabled |-> FALSE, protocol |-> "none", auth |-> FALSE]
NoSpec == [enabled |-> FALSE]
NoInterface == "none"
ProxyModem == {s.modem : s \in SpecChoice}

ASSUME ProxyAssumption ==
  /\ \A s \in SpecChoice : /\ s.upstream \in UpstreamId
                           /\ {s.auth, s.enabled} \subseteq BOOLEAN
                           /\ s.protocol \in {"socks5", "http"}
  /\ NoInterface \notin Interface
  /\ MaxProxyOps \in Nat /\ MaxClients \in Nat

VARIABLES
  upstreams,  \* ProxyManager.upstreams: what the last apply brought
  running,    \* ProxyManager.running: id -> Running
  failed,     \* ProxyManager.failed: id -> the specification that could not start
  reported,   \* ProxyManager.reported: id -> counters at the last report
  todo,       \* specifications the running command has still to start
  dying,      \* ports of aborted listeners whose tasks are not yet dropped
  conns,      \* connections, each a spawned task of its own
  wwan,       \* which interface each modem's data session has now
  carried,    \* history: what the listeners of an id ever counted
  cloud,      \* history: the sum of the deltas reported for an id
  leaks,      \* history: connections that left over another modem's interface
  probed,     \* what the last probe of an upstream answered
  proxyOps

proxyVars == <<upstreams, running, failed, reported, todo, dying, conns, wwan,
               carried, cloud, leaks, probed, proxyOps>>

Zero == [bytes |-> 0, connections |-> 0, errors |-> 0]
Field == DOMAIN Zero
Plus(a, b) == [f \in Field |-> a[f] + b[f]]
Minus(a, b) == [f \in Field |-> IF a[f] > b[f] THEN a[f] - b[f] ELSE 0]

ProxyInit ==
  /\ upstreams = [u \in UpstreamId |-> NoUpstream]
  /\ running = << >> /\ failed = << >> /\ reported = << >>
  /\ todo = {} /\ dying = {} /\ conns = {}
  /\ wwan \in {w \in [ProxyModem -> Interface \cup {NoInterface}] :
                 \A m, n \in ProxyModem : w[m] = w[n] => m = n \/ w[m] = NoInterface}
  /\ carried = [i \in Instance |-> Zero]
  /\ cloud = [i \in Instance |-> Zero]
  /\ leaks = 0 /\ probed = "ok" /\ proxyOps = 0

Without(f, S) == [x \in DOMAIN f \ S |-> f[x]]
With(f, x, v) == [y \in DOMAIN f \cup {x} |-> IF y = x THEN v ELSE f[y]]

(***************************************************************************)
(* Reconciling with the wanted state.                                      *)
(***************************************************************************)
Differs(wanted, current) ==
  \E f \in {"port", "modem", "protocol", "auth", "upstream"} : wanted[f] # current[f]

\* Removing a listener drops its counters with it: a connection still open
\* goes on, and counts into an object nobody reads any more.
Orphaned(ids) == {[c EXCEPT !.counted = c.counted /\ c.id \notin ids] : c \in conns}
Ports(ids) == {running[i].spec.port : i \in ids}

Apply ==
  /\ todo = {} /\ proxyOps < MaxProxyOps
  /\ \E wanted \in [Instance -> SpecChoice \cup {NoSpec}],
        table \in [UpstreamId -> UpstreamChoice \cup {NoUpstream}] :
       LET stale == {i \in DOMAIN running :
                       \/ ~wanted[i].enabled
                       \/ Differs(wanted[i], running[i].spec)}
       IN  /\ upstreams' = table
           /\ running' = Without(running, stale)
           /\ dying' = dying \cup Ports(stale)
           /\ conns' = Orphaned(stale)
           /\ failed' = << >>
           /\ todo' = {<<i, wanted[i]>> : i \in {j \in Instance \ DOMAIN running' :
                                                   wanted[j].enabled}}
  /\ proxyOps' = proxyOps + 1
  /\ UNCHANGED <<reported, wwan, carried, cloud, leaks, probed>>

UnsupportedProtocol(spec, upstream) ==
  spec.protocol # "socks5" \/ (upstream.enabled /\ upstream.protocol # "socks5")

\* An upstream that is not enabled is no upstream.
Chosen(spec) ==
  IF upstreams[spec.upstream].enabled THEN upstreams[spec.upstream] ELSE NoUpstream

InterfaceFor(m) == wwan[m]

PortTaken(p) == p \in dying \/ \E i \in DOMAIN running : running[i].spec.port = p

StartFails(spec) ==
  \/ UnsupportedProtocol(spec, Chosen(spec))
  \/ InterfaceFor(spec.modem) = NoInterface
  \/ PortTaken(spec.port)

Start ==
  \E t \in todo :
    LET id == t[1]
        spec == t[2]
    IN  /\ todo' = todo \ {t}
        /\ IF StartFails(spec)
           THEN failed' = With(failed, id, spec) /\ UNCHANGED running
           ELSE /\ running' = With(running, id,
                     [spec |-> spec, upstream |-> Chosen(spec),
                      interface |-> InterfaceFor(spec.modem), counters |-> Zero])
                /\ UNCHANGED failed
        /\ UNCHANGED <<upstreams, reported, dying, conns, wwan, carried, cloud,
                       leaks, proxyOps, probed>>

\* Stop and restart act on what is running or failed, never on a specification
\* that an earlier stop removed.  An id unknown to both is refused.
StopListener ==
  /\ todo = {} /\ proxyOps < MaxProxyOps
  /\ \E id \in DOMAIN running :
       /\ running' = Without(running, {id})
       /\ dying' = dying \cup Ports({id})
       /\ conns' = Orphaned({id})
  /\ proxyOps' = proxyOps + 1
  /\ UNCHANGED <<upstreams, failed, reported, todo, wwan, carried, cloud, leaks, probed>>

RestartListener ==
  /\ todo = {} /\ proxyOps < MaxProxyOps
  /\ \E id \in DOMAIN running \cup DOMAIN failed :
       LET live == id \in DOMAIN running
       IN  /\ running' = Without(running, {id})
           /\ dying' = dying \cup Ports({id} \cap DOMAIN running)
           /\ conns' = Orphaned({id})
           /\ todo' = {<<id, IF live THEN running[id].spec ELSE failed[id]>>}
  /\ proxyOps' = proxyOps + 1
  /\ UNCHANGED <<upstreams, failed, reported, wwan, carried, cloud, leaks, probed>>

\* The runtime drops an aborted task, and its socket with it.
Reap ==
  /\ \E p \in dying : dying' = dying \ {p}
  /\ UNCHANGED <<upstreams, running, failed, reported, todo, conns, wwan, carried,
                 cloud, leaks, proxyOps, probed>>

(***************************************************************************)
(* Serving.                                                                *)
(***************************************************************************)
\* What a client may say: the version, the methods it offers, whether its
\* credentials match, and the command and address type it asks for.
Client == [version : {5, 4}, offers : SUBSET {"none", "password"}, matches : BOOLEAN,
           command : {"connect", "udp"}, target : {"address", "unknown"}]

SelectAuthMethod(offers, auth) == (IF auth THEN "password" ELSE "none") \in offers

ParseRequest(client) == client.command = "connect" /\ client.target # "unknown"

Negotiate(client, spec) ==
  /\ client.version = 5
  /\ SelectAuthMethod(client.offers, spec.auth)
  /\ spec.auth => client.matches
  /\ ParseRequest(client)

\* What an upstream may answer to the handshake.
UpstreamAnswer == [method : {"none", "password", "refused"}, accepts : BOOLEAN,
                   grants : BOOLEAN]

UpstreamHandshake(answer) ==
  /\ answer.method # "refused"
  /\ answer.method = "password" => answer.accepts
  /\ answer.grants

Owner(interface) == {m \in ProxyModem : wwan[m] = interface}

Count(id, counted, what) ==
  /\ carried' = [carried EXCEPT ![id] = Plus(@, what)]
  /\ running' = IF counted THEN [running EXCEPT ![id].counters = Plus(@, what)]
                ELSE running

Accept ==
  \E id \in DOMAIN running :
    /\ carried[id].connections + carried[id].errors < MaxClients
    /\ conns' = conns \cup {[id |-> id, no |-> carried[id].connections, counted |-> TRUE, phase |-> "greeting",
                              spec |-> running[id].spec, upstream |-> running[id].upstream,
                              interface |-> running[id].interface]}
    /\ Count(id, TRUE, [Zero EXCEPT !.connections = 1])
    /\ UNCHANGED <<upstreams, failed, reported, todo, dying, wwan, cloud, leaks, proxyOps, probed>>

\* A failed accept is counted and the loop goes on.
AcceptFails ==
  \E id \in DOMAIN running :
    /\ carried[id].connections + carried[id].errors < MaxClients
    /\ Count(id, TRUE, [Zero EXCEPT !.errors = 1])
    /\ UNCHANGED <<upstreams, failed, reported, todo, dying, conns, wwan, cloud, leaks,
                   proxyOps, probed>>

\* SO_BINDTODEVICE takes whatever interface has the name now.
ConnectVia(interface) == Owner(interface) # {}

ConnectOut(c, answer) ==
  /\ ConnectVia(c.interface)
  /\ c.upstream.enabled => UpstreamHandshake(answer)

Outcomes(c) ==
  {Negotiate(client, c.spec) /\ ConnectOut(c, answer) :
     client \in Client, answer \in UpstreamAnswer}

HandleClient ==
  \E c \in {d \in conns : d.phase = "greeting"} :
  \E out \in Outcomes(c) :
        /\ conns' = (conns \ {c}) \cup (IF out THEN {[c EXCEPT !.phase = "relay"]} ELSE {})
        /\ leaks' = IF out /\ c.spec.modem \notin Owner(c.interface)
                    THEN 1 ELSE leaks
        /\ IF out THEN UNCHANGED <<carried, running>>
           ELSE Count(c.id, c.counted, [Zero EXCEPT !.errors = 1])
        /\ UNCHANGED <<upstreams, failed, reported, todo, dying, wwan, cloud, proxyOps, probed>>

Relay ==
  \E c \in conns, n \in 0..1 :
    /\ c.phase = "relay"
    /\ conns' = conns \ {c}
    /\ Count(c.id, c.counted, [Zero EXCEPT !.bytes = n])
    /\ UNCHANGED <<upstreams, failed, reported, todo, dying, wwan, cloud, leaks, proxyOps, probed>>

\* A modem that resets comes back under another name, or under none.
Renumber ==
  /\ wwan' \in {w \in [ProxyModem -> Interface \cup {NoInterface}] :
                  \A m, n \in ProxyModem : w[m] = w[n] => m = n \/ w[m] = NoInterface}
  /\ wwan' # wwan
  /\ UNCHANGED <<upstreams, running, failed, reported, todo, dying, conns, carried,
                 cloud, leaks, proxyOps, probed>>

(***************************************************************************)
(* Reporting.                                                              *)
(***************************************************************************)
Baseline(id) == IF id \in DOMAIN reported THEN reported[id] ELSE Zero

\* The same report without remembering what it reported.
DrainTrafficMutant ==
  /\ cloud' = [i \in Instance |->
                 IF i \in DOMAIN running
                 THEN Plus(cloud[i], Minus(running[i].counters, Baseline(i)))
                 ELSE cloud[i]]
  /\ UNCHANGED <<upstreams, running, failed, reported, todo, dying, conns, wwan,
                 carried, leaks, proxyOps, probed>>

DrainTraffic ==
  /\ cloud' = [i \in Instance |->
                 IF i \in DOMAIN running
                 THEN Plus(cloud[i], Minus(running[i].counters, Baseline(i)))
                 ELSE cloud[i]]
  /\ reported' = [i \in DOMAIN running |-> running[i].counters]
  /\ UNCHANGED <<upstreams, running, failed, todo, dying, conns, wwan, carried,
                 leaks, proxyOps, probed>>

\* What an operator's probe of an upstream says: how far it got.
ProbeStage(reachable, answers, answer) ==
  IF ~reachable THEN "tcp_connect"
  ELSE IF ~answers \/ answer.method = "refused" THEN "handshake"
  ELSE IF answer.method = "password" /\ ~answer.accepts THEN "authentication"
  ELSE "ok"

\* The probe leaves over the box's default route whatever interface the
\* listeners use, and changes nothing but the answer.
ProbeUpstream ==
  /\ todo = {} /\ proxyOps < MaxProxyOps
  /\ \E u \in UpstreamId :
       /\ upstreams[u] # NoUpstream
       /\ probed' \in {ProbeStage(r, a, n) : r \in BOOLEAN, a \in BOOLEAN, n \in UpstreamAnswer}
  /\ proxyOps' = proxyOps + 1
  /\ UNCHANGED <<upstreams, running, failed, reported, todo, dying, conns, wwan,
                 carried, cloud, leaks>>

ProxyNext ==
  \/ Apply \/ Start \/ StopListener \/ RestartListener \/ Reap
  \/ Accept \/ AcceptFails \/ HandleClient \/ Relay \/ Renumber \/ DrainTraffic
  \/ ProbeUpstream

ProxySpec == ProxyInit /\ [][ProxyNext]_proxyVars

(***************************************************************************)
(* Properties.                                                             *)
(***************************************************************************)
\* What the cloud adds up for an instance never exceeds what its listeners
\* counted, across every restart between two reports, every report between a
\* stop and the start that follows it, and every connection that outlives its
\* listener.  (drain_traffic: deltas against a baseline that is kept by id, for
\* counters that are kept by listener.)
TrafficNotOvercounted ==
  \A i \in Instance : \A f \in Field : cloud[i][f] <= carried[i][f]
=============================================================================
