----------------------------- MODULE IkeProbe -----------------------------
(* vodoge-ike-probe -auth: the ladder IKE_SA_INIT, EAP-AKA inside IKE_AUTH, *)
(* AUTH, CHILD_SA, tried against one ePDG address after another, over one    *)
(* UDP socket, with the card asked through the AT lease socket.              *)
(*                                                                           *)
(* The network loses, delays and repeats datagrams.  The peer is either the  *)
(* subscriber's own network, which knows the keys of the challenges it       *)
(* issues, or somebody who can pass a challenge on and knows no key.         *)
EXTENDS Naturals, Sequences, FiniteSets

CONSTANTS
    Group,          \* the Diffie-Hellman groups anyone may name
    OfferedGroup,   \* the ones in our proposal
    FirstGroup,     \* the one the first KE payload is made for
    MaxCandidates,  \* MaxLiveAuthCandidates
    Attempts,       \* RetransmitPolicy.Attempts
    QueueDepth,     \* datagrams the socket keeps unread
    MaxCookieRounds, MaxGroupRetries, MaxEAPRounds, MaxResync

ASSUME IkeConstants ==
    /\ OfferedGroup \subseteq Group /\ FirstGroup \in OfferedGroup
    /\ {MaxCandidates, Attempts, QueueDepth, MaxEAPRounds} \subseteq Nat \ {0}
    /\ {MaxCookieRounds, MaxGroupRetries, MaxResync} \subseteq Nat

VARIABLES
    phase,     \* what the probe waits for
    candidate, \* the address being tried
    home,      \* the peer there is the subscriber's own network
    request,   \* the exchange under way: Message ID, group of its KE
    sent,      \* transmissions of it so far
    answers,   \* answers under way, any number of times over
    queue,     \* Socket.ike
    matched,   \* the last exchange that ended, and the age of its answer
    tried,     \* groups keyed with this candidate
    rounds,    \* cookies, EAP rounds and AT_AUTS spent
    keys,      \* the EAP driver holds an MSK
    calls,     \* CalculateAKA calls that hold an in-flight slot, and their ends
    recorded   \* RecordingAKAProvider.vectors of this ladder is not empty

wire == <<request, sent, answers, queue>>
ladder == <<tried, rounds, keys>>
ikeVars == <<phase, candidate, home, wire, matched, ladder, calls, recorded>>

NoRounds == [cookie |-> 0, eap |-> 0, sync |-> 0]
Waiting == {"init", "eap", "final"}     \* inside ExchangeIKE
Ended == {"up", "down"}

(* IKE_SA_INIT always has Message ID 0, cookie or not and whatever the group *)
InitRequest(g) == [id |-> 0, group |-> g]
AuthRequest == [request EXCEPT !.id = @ + 1]

(* ExchangeIKE: what an earlier exchange left in the queue is thrown away,   *)
(* then the request is transmitted for the first time.  Answers to the       *)
(* exchange before may still be under way; older ones are taken to be gone.  *)
Exchange(req) ==
    /\ request' = req
    /\ sent' = 1
    /\ queue' = <<>>
    /\ answers' = {[a EXCEPT !.age = 1] : a \in {b \in answers : b.age = 0}}

(* A ladder against one address: a socket, an SPI and a nonce of its own.    *)
Start(c) ==
    /\ candidate' = c
    /\ home' \in BOOLEAN
    /\ request' = InitRequest(FirstGroup)
    /\ sent' = 1
    /\ answers' = {} /\ queue' = <<>>
    /\ tried' = {FirstGroup}
    /\ rounds' = NoRounds
    /\ keys' = FALSE
    /\ recorded' = FALSE
    /\ phase' = "init"

(* SawCarrierChallenge is read off the recording when the ladder ends.       *)
SawCarrierChallenge == recorded

(* The loop over the candidates: a challenge that reached the card ends it.  *)
Fail ==
    IF SawCarrierChallenge \/ candidate = MaxCandidates
    THEN /\ phase' = "down"
         /\ UNCHANGED <<candidate, home, wire, ladder, recorded>>
    ELSE Start(candidate + 1)

-----------------------------------------------------------------------------
(* The peer and the network *)

InitAnswer(g) ==
    [kind : {"cookie", "refused"}]
        \cup [kind : {"invalidKE"}, group : Group \ {g}]
        \cup [kind : {"sa"}, selected : Group, ke : {g}]
        \cup [kind : {"sa"}, selected : {g}, ke : Group \ {g}]

(* An AUTH payload over the INIT exchange, under the key of a challenge: only *)
(* the subscriber's network can make one that verifies.                       *)
Proofs == {"none", "forged"} \cup (IF home THEN {"signed"} ELSE {})

AuthAnswer ==
    [kind : {"eap"}, eap : {"identity", "challenge", "kdf", "control"},
     auth : {"none", "forged"}, sa : {FALSE}]
        \cup [kind : {"eap"}, eap : {"success"}, auth : {"none"}, sa : BOOLEAN]
        \cup [kind : {"eap"}, eap : {"failure"}, auth : {"none"}, sa : {FALSE}]
        \cup [kind : {"child"}, auth : Proofs, sa : BOOLEAN]
        \cup [kind : {"refused"}]

(* A peer repeats the answer it gave to a request, to each copy of it.       *)
PeerAnswers ==
    /\ phase \in Waiting
    /\ \A a \in answers : a.age # 0
    /\ \E body \in (IF request.id = 0 THEN InitAnswer(request.group) ELSE AuthAnswer) :
          answers' = answers \cup {[age |-> 0, id |-> request.id, body |-> body]}
    /\ UNCHANGED <<phase, candidate, home, request, sent, queue, matched, ladder, calls, recorded>>

(* readLoop and deliver: a full queue loses its oldest datagram.             *)
Deliver(a) ==
    /\ phase \in Waiting
    /\ queue' = IF Len(queue) < QueueDepth THEN Append(queue, a)
                                           ELSE Append(Tail(queue), a)
    /\ UNCHANGED <<phase, candidate, home, request, sent, answers, matched, ladder, calls, recorded>>

MatchesResponseMutant(a) == a.id <= request.id

(* matchesResponse compares the SPI, the Message ID and the exchange type.   *)
MatchesResponse(a) == a.id = request.id

Unmatched ==
    /\ phase \in Waiting
    /\ queue # <<>> /\ ~MatchesResponse(Head(queue))
    /\ queue' = Tail(queue)
    /\ UNCHANGED <<phase, candidate, home, request, sent, answers, matched, ladder, calls, recorded>>

(* The wait for an answer runs out: the same bytes again, or the end of it.  *)
Expire ==
    /\ phase \in Waiting
    /\ \/ /\ sent < Attempts
          /\ sent' = sent + 1
          /\ UNCHANGED <<phase, candidate, home, request, answers, queue, ladder, recorded>>
       \/ /\ sent = Attempts
          /\ Fail
    /\ UNCHANGED <<matched, calls>>

(* The context of the exchange ends first (InitTimeout, AuthTimeout).        *)
ContextEnds ==
    /\ phase \in Waiting
    /\ Fail
    /\ UNCHANGED <<matched, calls>>

Take ==
    /\ phase \in Waiting
    /\ queue # <<>> /\ MatchesResponse(Head(queue))
    /\ matched' = [id |-> request.id, age |-> Head(queue).age]

-----------------------------------------------------------------------------
(* IKE_SA_INIT: InitRunner.Run, attempt and exchange *)

InitAgain(g) == Exchange(InitRequest(g))

Refuse == Fail /\ UNCHANGED calls

(* A COOKIE is returned in a new request, a bounded number of times.         *)
CookieMutant ==
    /\ InitAgain(request.group)
    /\ UNCHANGED <<phase, candidate, home, ladder, recorded, calls>>

Cookie ==
    IF rounds.cookie < MaxCookieRounds
    THEN /\ InitAgain(request.group)
         /\ rounds' = [rounds EXCEPT !.cookie = @ + 1]
         /\ UNCHANGED <<phase, candidate, home, tried, keys, recorded, calls>>
    ELSE Refuse

(* INVALID_KE_PAYLOAD, or an SA for another group than the KE payload's: one *)
(* more attempt if the group was offered and has not been keyed before.      *)
SwitchGroup(g) ==
    IF g \in OfferedGroup \ tried /\ Cardinality(tried) <= MaxGroupRetries
    THEN /\ InitAgain(g)
         /\ tried' = tried \cup {g}
         /\ rounds' = [rounds EXCEPT !.cookie = 0]
         /\ UNCHANGED <<phase, candidate, home, keys, recorded, calls>>
    ELSE Refuse

(* AuthRunner starts a session on the INIT result and sends the first        *)
(* IKE_AUTH request (IDi, SA, TS, CP, EAP_ONLY_AUTHENTICATION).              *)
NewSession == Exchange(AuthRequest) /\ phase' = "eap"

(* The rest of attempt: shared secret, key material, NAT evaluation.         *)
InitDone ==
    /\ NewSession
    /\ UNCHANGED <<candidate, home, ladder, recorded, calls>>

(* The answer's KE payload must be for the group ours was made for, and its  *)
(* SA must choose among the transforms that were offered.                    *)
ParseInitResponse(b) == b.ke = request.group
ValidateSelection(b) == b.selected \in OfferedGroup

TakeInit ==
    /\ phase = "init" /\ Take
    /\ LET b == Head(queue).body
       IN  \/ b.kind = "cookie" /\ Cookie
           \/ b.kind = "refused" /\ Refuse
           \/ b.kind = "invalidKE" /\ SwitchGroup(b.group)
           \/ /\ b.kind = "sa"
              /\ \/ ~(ParseInitResponse(b) /\ ValidateSelection(b)) /\ Refuse
                 \/ /\ ParseInitResponse(b) /\ ValidateSelection(b)
                    /\ IF b.selected = request.group THEN InitDone
                                                     ELSE SwitchGroup(b.selected)

-----------------------------------------------------------------------------
(* The card: aka.Provider behind the recorder behind WithAKADeadline *)

Slots == {n \in DOMAIN calls : calls[n].state # "closed"}
OpenCall == {n \in Slots : calls[n].state = "open"}
Settle(n, state) == calls' = [calls EXCEPT ![n].state = state]

(* CalculateAKA: a slot of this ladder's provider, a connection of its own,   *)
(* one request line.  A ladder has one call at a time, so there is a slot;   *)
(* with no daemon the provider fails, and that too is recorded.              *)
AskCard ==
    \/ /\ calls' = Append(calls, [ladder |-> candidate, state |-> "open"])
       /\ phase' = "card"
       /\ rounds' = [rounds EXCEPT !.eap = @ + 1]
       /\ UNCHANGED <<candidate, home, request, sent, answers, queue, tried, keys, recorded>>
    \/ /\ recorded' = TRUE
       /\ phase' = "down"
       /\ UNCHANGED <<candidate, home, request, sent, answers, queue, ladder, calls>>

(* The EAP response goes out in the next IKE_AUTH request.                   *)
Answer == Exchange(AuthRequest) /\ phase' = "eap"

(* The provider answers while the ladder waits.  AT_AUTS is sent within its  *)
(* budget; after Authentication-Reject, or AT_AUTS over the budget, only the *)
(* answer to that request is waited for: the ladder has failed, and that     *)
(* last exchange is not modelled.                                            *)
CardAnswers(n) ==
    /\ phase = "card" /\ n \in OpenCall
    /\ Settle(n, "closed")
    /\ recorded' = TRUE
    /\ \/ Answer /\ keys' = TRUE /\ UNCHANGED rounds
       \/ /\ rounds.sync < MaxResync
          /\ Answer /\ rounds' = [rounds EXCEPT !.sync = @ + 1] /\ UNCHANGED keys
       \/ phase' = "down" /\ UNCHANGED <<request, sent, answers, queue, rounds, keys>>
    /\ UNCHANGED <<candidate, home, matched, tried>>

(* The provider's own deadline: it reports an error, which is recorded, and  *)
(* leaves connection and slot to the reaper.                                 *)
ProviderTimeout(n) ==
    /\ n \in Slots /\ calls[n].state \in {"open", "orphan"}
    /\ Settle(n, "reaped")
    /\ IF calls[n].state = "open"
       THEN recorded' = TRUE /\ phase' = "down"
       ELSE UNCHANGED <<recorded, phase>>
    /\ UNCHANGED <<candidate, home, wire, matched, ladder>>

(* WithAKADeadline or the context of IKE_AUTH: the ladder stops waiting for a *)
(* call that runs on, and that the recorder has not seen yet.                 *)
OuterDeadline(n) ==
    /\ phase = "card" /\ n \in OpenCall
    /\ Settle(n, "orphan")
    /\ Fail
    /\ UNCHANGED matched

(* The daemon answers a call nobody waits for, or Grace is over.             *)
Reap(n) ==
    /\ n \in Slots /\ calls[n].state \in {"orphan", "reaped"}
    /\ Settle(n, "closed")
    /\ UNCHANGED <<phase, candidate, home, wire, matched, ladder, recorded>>

-----------------------------------------------------------------------------
(* IKE_AUTH: authSession.run and finish *)

EapStep ==
    /\ rounds' = [rounds EXCEPT !.eap = @ + 1]
    /\ Answer
    /\ UNCHANGED <<candidate, home, tried, keys, recorded, calls>>

(* EAP-Success must come without a CHILD_SA, and there must be keys to make  *)
(* an AUTH payload of.                                                       *)
EapSuccess(b) ==
    IF b.sa \/ ~keys
    THEN Refuse
    ELSE /\ Exchange(AuthRequest) /\ phase' = "final"
         /\ UNCHANGED <<candidate, home, ladder, recorded, calls>>

(* One turn of the EAP loop.  An AUTH payload before EAP has finished comes  *)
(* from a peer that wants to be believed by certificate: refused.            *)
TakeEap ==
    /\ phase = "eap" /\ Take
    /\ LET b == Head(queue).body
       IN  IF \/ b.kind # "eap" \/ rounds.eap >= MaxEAPRounds
              \/ b.auth # "none"
           THEN Refuse
           ELSE \/ b.eap \in {"identity", "kdf", "control"} /\ EapStep
                \/ b.eap = "challenge" /\ AskCard
                \/ b.eap = "success" /\ EapSuccess(b)
                \/ b.eap = "failure" /\ Refuse

(* verifyPeerAuth: the peer's AUTH under the MSK, over the INIT exchange.    *)
VerifyPeerAuth(b) == b.auth = "signed"

(* finish: AUTH verified first, then the CHILD_SA that came with it.         *)
TakeFinal ==
    /\ phase = "final" /\ Take
    /\ LET b == Head(queue).body
       IN  IF b.kind = "child" /\ VerifyPeerAuth(b) /\ b.sa
           THEN /\ phase' = "up"
                /\ UNCHANGED <<candidate, home, request, sent, answers, queue, ladder, recorded, calls>>
           ELSE Refuse

-----------------------------------------------------------------------------
IkeInit ==
    /\ phase = "init" /\ candidate = 1
    /\ home \in BOOLEAN
    /\ request = InitRequest(FirstGroup)
    /\ sent = 1 /\ answers = {} /\ queue = <<>>
    /\ matched = [id |-> 0, age |-> 0]
    /\ tried = {FirstGroup} /\ rounds = NoRounds /\ keys = FALSE
    /\ calls = <<>> /\ recorded = FALSE

ClientStep ==
    \/ TakeInit \/ TakeEap \/ TakeFinal \/ Unmatched
    \/ \E n \in DOMAIN calls : CardAnswers(n)

IkeNext ==
    \/ PeerAnswers
    \/ \E a \in answers : Deliver(a)
    \/ ClientStep
    \/ Expire \/ ContextEnds
    \/ \E n \in DOMAIN calls : ProviderTimeout(n) \/ OuterDeadline(n) \/ Reap(n)

IkeSpec == IkeInit /\ [][IkeNext]_ikeVars

(* The probe's own goroutines and timers run.  Nothing is asked of the       *)
(* network, the peer, the card or the contexts' deadlines.                   *)
FairIkeSpec ==
    /\ IkeSpec
    /\ WF_ikeVars(ClientStep)
    /\ WF_ikeVars(Expire)
    /\ WF_ikeVars(\E n \in DOMAIN calls : ProviderTimeout(n))
    /\ WF_ikeVars(\E n \in DOMAIN calls : Reap(n))

-----------------------------------------------------------------------------
(* A tunnel is only ever built with the subscriber's own network: a peer     *)
(* that cannot compute the keys of the challenge it passed on gets no        *)
(* CHILD_SA accepted, whatever it leaves out, adds early or repeats          *)
(* (authSession.run, finish and verifyPeerAuth).                             *)
HomeOnly == phase = "up" => home /\ keys /\ recorded

(* No IKE_AUTH exchange ends with the answer to an earlier one, however often *)
(* and late the network repeats it (ExchangeIKE, matchesResponse).            *)
AuthAnswersFresh == matched.id > 0 => matched.age = 0

(* Both. *)
IkeInv == HomeOnly /\ AuthAnswersFresh

(* Every run ends, and gives back every slot it took on the lease socket,    *)
(* with a peer that never says anything final and a card that never answers  *)
(* (the budgets of InitRunner.Run and authSession.run, reserve and reap).    *)
ProbeEnds == <>[](phase \in Ended /\ Slots = {})
=============================================================================
