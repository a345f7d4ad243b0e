---------------------------- MODULE VoiceBridge ----------------------------
(***************************************************************************)
(* The voice process (voice/): a signalling endpoint whose handlers put up *)
(* and take down the one call, and the media path of a call, browser leg   *)
(* -- loopback -- relay -- stand-in IMS peer and back.                     *)
(*                                                                         *)
(* A handler is a goroutine; app.mu is held through a whole offer, gather- *)
(* ing included, and released by a hangup before it closes.  `have[c]' is  *)
(* what has been opened or installed of call c, in the order of NewCall.   *)
(* pion and the relay are external: a step of theirs may fail, and the     *)
(* relay forwards what it has a target for and drops the rest.             *)
(***************************************************************************)
EXTENDS EchoLine, FiniteSets

CONSTANTS Handler,          \* requests to the signalling endpoint
          Main,             \* the goroutine that waits for a signal
          CandidateChoice,  \* the ICE candidates an answer may carry
          AdvertiseIP,      \* LocalMediaPolicy::AdvertiseIPs
          MaxCalls,         \* bound: calls begun
          MaxRequests,      \* bound: requests made
          MaxPackets        \* bound: RTP packets sent

Call == 1..MaxCalls
NoCall == 0
Actor == Handler \cup {Main}

ASSUME VoiceAssumption ==
    /\ MaxCalls \in Nat /\ MaxRequests \in Nat /\ MaxPackets \in Nat
    /\ IsFiniteSet(Handler) /\ Main \notin Handler /\ "nobody" \notin Handler \cup {Main}
    /\ \A k \in CandidateChoice : {"typ", "ip"} \subseteq DOMAIN k

VARIABLES
    mu,        \* app.mu: who holds it, or nobody
    current,   \* app.call
    act,       \* what each goroutine is doing: at, with which call, how far
    have,      \* what there is of each call
    tasks,     \* the goroutines of each call that its Close waits for
    path,      \* packets on their way between the parts of a call
    counts,    \* the counters of Peer and Loopback, and what passed unseen
    dropped,   \* history: the relay met a packet it had no target for
    answered,  \* the candidates of the last answer a browser got
    serving,   \* "yes", "no" after the signal, "down" after Shutdown, "exited"
    began,
    requests, packets  \* what is spent of the two bounds

voiceVars == <<mu, current, act, have, tasks, path, counts, dropped, answered,
               serving, began, requests, packets>>

Nobody == "nobody"
AtRest == [at |-> "idle", call |-> NoCall, step |-> 1]
PeerTask == {"recvLoop", "peerRTCP", "sendLoop"}
LoopTask == {"pumpFromRelay", "drainRTCP"}

\* What each goroutine reads until it is closed under it.
Reads == [t \in PeerTask \cup LoopTask |->
            CASE t \in PeerTask -> "imsPeer"
              [] t = "pumpFromRelay" -> "rtpConn"
              [] t = "drainRTCP" -> "rtcpConn"]

NoPackets == [client |-> 0, peer |-> 0, ims |-> 0, bridge |-> 0, up |-> 0, down |-> 0]
NoCounts == [fromBrowser |-> 0, toRelay |-> 0, fromRelay |-> 0, toBrowser |-> 0,
             peerDropped |-> 0, loopDropped |-> 0, unseen |-> 0]

VoiceInit ==
    /\ mu = Nobody /\ current = NoCall
    /\ act = [h \in Actor |-> AtRest]
    /\ have = [c \in Call |-> {}]
    /\ tasks = [c \in Call |-> {}]
    /\ path = [c \in Call |-> NoPackets]
    /\ counts = [c \in Call |-> NoCounts]
    /\ dropped = FALSE /\ answered = {}
    /\ serving = "yes" /\ began = 0
    /\ requests \in 0..MaxRequests /\ packets \in 0..MaxPackets

-----------------------------------------------------------------------------
\* Mutant: the peer is pointed at the relay before the relay's client leg is
\* pointed at the bridge.
BuildOrderMutant == <<"imsPeer", "relay", "rtpConn", "rtcpConn", "peerTarget", "clientRemote",
                      "pumps", "pc", "browser", "gathered", "audited">>

\* NewCall, NewLoopback, NewPeer and Answer, in their order.
BuildOrder == <<"imsPeer", "relay", "rtpConn", "rtcpConn", "clientRemote", "peerTarget",
                "pumps", "pc", "browser", "gathered", "audited">>

\* Call.Close, Peer.Close, Loopback.Close and FakeIMSPeer.Close, in their order.
CloseOrder == <<"pc", "relay", "rtpConn", "rtcpConn", "imsPeer">>

Socket == {"pc", "relay", "rtpConn", "rtcpConn", "imsPeer"}

AllowsIP(ip) == ip # "loopback" /\ (AdvertiseIP = {} \/ ip \in AdvertiseIP)
AuditAnswer(candidates) ==
    /\ candidates # {}
    /\ \A k \in candidates : k.typ = "host" /\ AllowsIP(k.ip)

-----------------------------------------------------------------------------
(* The handlers *)

Running == serving # "exited"
mediaVars == <<have, tasks, path, counts, dropped, packets>>

\* A request that is authorised, a POST, and decodes.  It gets a goroutine of its
\* own; which of the free names it has does not matter.
Asks(h, op) ==
    /\ serving = "yes" /\ requests < MaxRequests
    /\ act[h].at = "idle" /\ h = CHOOSE g \in Handler : act[g].at = "idle"
    /\ op = "offer" => began + Cardinality({g \in Handler : act[g].at \in {"offer", "replacing"}}) < MaxCalls
    /\ requests' = requests + 1
    /\ act' = [act EXCEPT ![h].at = op]
    /\ UNCHANGED <<mu, current, mediaVars, answered, serving, began>>

Build(h) ==
    /\ began' = began + 1
    /\ act' = [act EXCEPT ![h] = [at |-> "building", call |-> began + 1, step |-> 1]]

\* answer: takes the lock, and closes the active call under it.
AnswerOffer(h) ==
    /\ Running /\ act[h].at = "offer" /\ mu = Nobody
    /\ mu' = h
    /\ IF current = NoCall
       THEN Build(h)
       ELSE act' = [act EXCEPT ![h] = [at |-> "replacing", call |-> current, step |-> 1]] /\ UNCHANGED began
    /\ UNCHANGED <<current, mediaVars, answered, serving, requests>>

\* closeCall: the call is taken out under the lock, and closed after it.
CloseCall(h) ==
    /\ Running /\ act[h].at = "hangup" /\ mu = Nobody
    /\ current' = NoCall
    /\ act' = [act EXCEPT ![h] = IF current = NoCall THEN AtRest
                                 ELSE [at |-> "closing", call |-> current, step |-> 1]]
    /\ UNCHANGED <<mu, mediaVars, answered, serving, began, requests>>

Closing(h) == act[h].at \in {"replacing", "undoing", "closing"}

\* What goes with a socket that is closed: the packets in its buffer.
Emptied(w, part) ==
    [hop \in DOMAIN w |-> IF \/ part = "relay" /\ hop \in {"client", "ims"}
                             \/ part = "rtpConn" /\ hop = "bridge"
                             \/ part = "imsPeer" /\ hop = "peer"
                          THEN 0 ELSE w[hop]]

\* Close goes through what is open; what never was is passed over.
CloseStep(h) ==
    LET c == act[h].call
    IN  /\ Running /\ Closing(h)
        /\ \E k \in DOMAIN CloseOrder :
              /\ CloseOrder[k] \in have[c]
              /\ \A i \in 1..(k - 1) : CloseOrder[i] \notin have[c]
              /\ have' = [have EXCEPT ![c] = @ \ {CloseOrder[k]}]
              /\ path' = [path EXCEPT ![c] = Emptied(@, CloseOrder[k])]
        /\ UNCHANGED <<mu, current, act, tasks, counts, dropped, packets, answered, serving, began, requests>>

\* The waits for the goroutines are over and Close returns: an offer goes on to
\* its own call, or gives up; a hangup is answered.
CloseDone(h) ==
    /\ Running /\ Closing(h)
    /\ \A k \in DOMAIN CloseOrder : CloseOrder[k] \notin have[act[h].call]
    /\ tasks[act[h].call] = {}
    /\ have' = [have EXCEPT ![act[h].call] = {}]
    /\ \/ /\ act[h].at = "replacing"
          /\ current' = NoCall
          /\ Build(h)
          /\ UNCHANGED mu
       \/ /\ act[h].at # "replacing"
          /\ act' = [act EXCEPT ![h] = AtRest]
          /\ mu' = IF act[h].at = "undoing" THEN Nobody ELSE mu
          /\ UNCHANGED <<current, began>>
    /\ UNCHANGED <<tasks, path, counts, dropped, packets, answered, serving, requests>>

\* One step of putting a call up.  The last is the audit of the answer, after
\* which the call is the active one.
Started(part) == CASE part = "imsPeer" -> PeerTask [] part = "pumps" -> LoopTask [] OTHER -> {}

BuildStep(h) ==
    LET c == act[h].call
        part == BuildOrder[act[h].step]
    IN  /\ Running /\ act[h].at = "building"
        /\ have' = [have EXCEPT ![c] = @ \cup {part}]
        /\ tasks' = [tasks EXCEPT ![c] = @ \cup Started(part)]
        /\ IF part = "audited"
           THEN /\ \E candidates \in SUBSET CandidateChoice :
                      AuditAnswer(candidates) /\ answered' = candidates
                /\ current' = c
                /\ mu' = Nobody
                /\ act' = [act EXCEPT ![h] = AtRest]
           ELSE /\ act' = [act EXCEPT ![h].step = @ + 1]
                /\ UNCHANGED <<current, mu, answered>>
        /\ UNCHANGED <<path, counts, dropped, packets, serving, began, requests>>

\* Any step but these two can fail (the audit, when it does not pass); what is
\* already there is closed, still under the lock.
BuildFails(h) ==
    /\ Running /\ act[h].at = "building"
    /\ BuildOrder[act[h].step] \notin {"pumps", "browser"}
    /\ act' = [act EXCEPT ![h].at = "undoing", ![h].step = 1]
    /\ UNCHANGED <<mu, current, mediaVars, answered, serving, began, requests>>

\* A signal: no new requests; main returns as soon as Serve does, and may end the
\* process before the shutdown goroutine has closed the call.
Signal ==
    /\ serving = "yes"
    /\ serving' = "no"
    /\ UNCHANGED <<mu, current, act, mediaVars, answered, began, requests>>

\* Shutdown has returned, when the handlers are done or after five seconds.
ShutdownReturned ==
    /\ serving = "no"
    /\ serving' = "down"
    /\ act' = [act EXCEPT ![Main].at = "hangup"]
    /\ UNCHANGED <<mu, current, mediaVars, answered, began, requests>>

\* With the process goes everything it had open.
Exit ==
    /\ serving \in {"no", "down"}
    /\ serving' = "exited"
    /\ mu' = Nobody /\ current' = NoCall
    /\ act' = [h \in Actor |-> AtRest]
    /\ have' = [c \in Call |-> {}] /\ tasks' = [c \in Call |-> {}]
    /\ path' = [c \in Call |-> NoPackets] /\ counts' = [c \in Call |-> NoCounts]
    /\ answered' = {}
    /\ UNCHANGED <<dropped, packets, began, requests>>

-----------------------------------------------------------------------------
(* The media of a call *)

callVars == <<mu, current, act, answered, serving, began, requests>>

\* Goroutines end when what they read is closed under them; the pump passes its
\* packet on first.
TasksEnd(c, closed) ==
    LET ending == {t \in tasks[c] : Reads[t] = closed}
    IN  /\ Running /\ ending # {} /\ closed \notin have[c]
        /\ "pumpFromRelay" \in ending => path[c].down = 0
        /\ tasks' = [tasks EXCEPT ![c] = @ \ ending]
        /\ UNCHANGED <<callVars, have, path, counts, dropped, packets>>

Moves(c, w, n) ==
    /\ path' = [path EXCEPT ![c] = w]
    /\ counts' = [counts EXCEPT ![c] = n]
    /\ UNCHANGED <<callVars, tasks>>

\* sendLoop: a tick with a target.
SendTick(c) ==
    /\ Running /\ packets < MaxPackets
    /\ "sendLoop" \in tasks[c] /\ {"imsPeer", "peerTarget"} \subseteq have[c]
    /\ packets' = packets + 1
    /\ Moves(c, [path[c] EXCEPT !.ims = IF "relay" \in have[c] THEN @ + 1 ELSE @], counts[c])
    /\ UNCHANGED <<have, dropped>>

\* The browser, which has the answer, speaks, and pumpFromBrowser has read it.
BrowserSpeaks(c) ==
    /\ Running /\ packets < MaxPackets
    /\ {"pc", "audited"} \subseteq have[c] /\ path[c].up = 0
    /\ packets' = packets + 1
    /\ Moves(c, [path[c] EXCEPT !.up = 1], [counts[c] EXCEPT !.fromBrowser = @ + 1])
    /\ UNCHANGED <<have, dropped>>

\* pumpFromBrowser, Loopback.WriteRTP: a socket that has gone counts on both legs.
ToRelay(c) ==
    /\ Running /\ path[c].up = 1
    /\ IF "rtpConn" \in have[c]
       THEN Moves(c, [path[c] EXCEPT !.up = 0, !.client = IF "relay" \in have[c] THEN @ + 1 ELSE @],
                     [counts[c] EXCEPT !.toRelay = @ + 1])
       ELSE Moves(c, [path[c] EXCEPT !.up = 0],
                     [counts[c] EXCEPT !.peerDropped = @ + 1, !.loopDropped = @ + 1])
    /\ UNCHANGED <<have, dropped, packets>>

\* The relay: the target of the IMS leg it was given when it was made, that of the
\* client leg by SetClientRemote.
Forward(c) ==
    /\ Running /\ "relay" \in have[c]
    /\ \/ /\ path[c].client > 0
          /\ Moves(c, [path[c] EXCEPT !.client = @ - 1,
                                      !.peer = IF "imsPeer" \in have[c] THEN @ + 1 ELSE @], counts[c])
          /\ UNCHANGED dropped
       \/ /\ path[c].ims > 0
          /\ Moves(c, [path[c] EXCEPT !.ims = @ - 1,
                                      !.bridge = IF {"clientRemote", "rtpConn"} \subseteq have[c]
                                                 THEN @ + 1 ELSE @], counts[c])
          /\ dropped' = (dropped \/ "clientRemote" \notin have[c])
    /\ UNCHANGED <<have, packets>>

\* recvLoop: a peer without a target learns it from the first packet.
PeerReceives(c) ==
    /\ Running /\ path[c].peer > 0 /\ "recvLoop" \in tasks[c]
    /\ have' = [have EXCEPT ![c] = @ \cup {"peerTarget"}]
    /\ Moves(c, [path[c] EXCEPT !.peer = @ - 1], counts[c])
    /\ UNCHANGED <<dropped, packets>>

\* pumpFromRelay reads a packet.
FromRelay(c) ==
    /\ Running /\ "pumpFromRelay" \in tasks[c] /\ path[c].bridge > 0 /\ path[c].down = 0
    /\ Moves(c, [path[c] EXCEPT !.bridge = @ - 1, !.down = 1],
                [counts[c] EXCEPT !.fromRelay = @ + 1])
    /\ UNCHANGED <<have, dropped, packets>>

\* pumpFromRelay looks for the browser and Peer.WriteRTP gives it the packet: a
\* closed track counts on the browser leg only, another error on both.
ToBrowser(c) ==
    /\ Running /\ path[c].down = 1
    /\ LET n == counts[c] IN \E told \in
           IF "browser" \notin have[c] THEN {[n EXCEPT !.unseen = @ + 1]}
           ELSE {[n EXCEPT !.peerDropped = @ + 1],
                 [n EXCEPT !.peerDropped = @ + 1, !.loopDropped = @ + 1]}
                \cup IF "pc" \in have[c] THEN {[n EXCEPT !.toBrowser = @ + 1]} ELSE {}
         : Moves(c, [path[c] EXCEPT !.down = 0], told)
    /\ UNCHANGED <<have, dropped, packets>>

HandlerStep(h) == AnswerOffer(h) \/ CloseCall(h) \/ CloseStep(h) \/ CloseDone(h) \/ BuildStep(h) \/ BuildFails(h)

\* What the process does of itself, for which some fairness is assumed: a
\* goroutine that can run runs, a Go mutex does not starve who waits for it, and
\* pion's gathering of host candidates completes.
VoiceStep ==
    \/ \E h \in Actor : HandlerStep(h)
    \/ \E c \in Call : ToBrowser(c) \/ \E closed \in Socket : TasksEnd(c, closed)

VoiceNext ==
    \/ \E h \in Handler, op \in {"offer", "hangup"} : Asks(h, op)
    \/ VoiceStep
    \/ Signal \/ ShutdownReturned \/ Exit
    \/ \E c \in Call :
          \/ SendTick(c) \/ BrowserSpeaks(c) \/ ToRelay(c) \/ Forward(c)
          \/ PeerReceives(c) \/ FromRelay(c)

VoiceSpec == VoiceInit /\ [][VoiceNext]_voiceVars

-----------------------------------------------------------------------------
(* Properties *)

\* A call that nobody has any more has left nothing behind, whichever step of
\* putting it up failed: no socket, no goroutine.
NothingLeaks ==
    \A c \in Call :
        \/ c = current
        \/ \E h \in Actor : act[h].call = c
        \/ have[c] \cap Socket = {} /\ tasks[c] = {}

\* One operator, one call: at most one is up or being put up (one that is hung up
\* may still be closing), and no call is closed by two.
OneCall ==
    /\ Cardinality({c \in Call : c = current \/ \E h \in Actor : act[h].at \in {"building", "replacing"} /\ act[h].call = c}) <= 1
    /\ \A g, h \in Actor : g # h /\ act[g].call = act[h].call => act[g].call = NoCall

\* Both targets are installed before any media arrives (NewLoopback's comment).
TargetsFirst == ~dropped

\* Every packet the bridge has read is counted as passed on or as dropped, except
\* those that came before there was a browser.
MediaAccounted ==
    \A c \in Call : LET n == counts[c] IN
        n.fromBrowser + n.fromRelay
            = n.toRelay + n.toBrowser + n.peerDropped + n.unseen + path[c].up + path[c].down

\* An answer that left the process names only addresses the operator may see.
AnswersAllowed == \A k \in answered : k.typ = "host" /\ AllowsIP(k.ip)

\* What the voice process keeps of its calls is right at every moment: nothing
\* leaks, one call, targets before media, packets accounted for.
VoiceInv == NothingLeaks /\ OneCall /\ TargetsFirst /\ MediaAccounted /\ AnswersAllowed /\ EchoIsDelayed

\* Every request is answered: Close waits for goroutines only after it has closed
\* what they read, and the lock comes free.
RequestsEnd == \A h \in Actor : act[h].at # "idle" ~> act[h].at = "idle" \/ serving = "exited"
=============================================================================
