------------------------------ MODULE MCAccess ------------------------------
(***************************************************************************)
(* Five protocols whose steps wait for someone else: the lease on the      *)
(* modules, the IKE probe, the submission of a message, the enrolment and  *)
(* the calls of the voice process, with the delay line of its echo.        *)
(* They share no state, so each is run by itself: `part' says which one a  *)
(* behaviour is of, and the others stay as they begin.                     *)
(***************************************************************************)
EXTENDS ModemArbiter, IkeProbe, SmsSubmit, Enrolment, VoiceBridge

VARIABLE part

\* An address the operator may see, one of the modems, and two kinds of candidate
\* that are never shown; a delay that fits the ring, one that just does not.
CandidateValue == {[typ |-> "host", ip |-> "internal"], [typ |-> "host", ip |-> "modem"],
                   [typ |-> "host", ip |-> "loopback"], [typ |-> "srflx", ip |-> "internal"]}
EchoDelayValue == {-1, 1, 2, 3, 9}

accessVars == <<part, arbiterVars, ikeVars, submitVars, enrolVars, voiceVars, echoVars>>

AccessInit ==
    /\ part \in {"arbiter", "ike", "submit", "enrol", "voice", "echo"}
    /\ ArbiterInit /\ IkeInit /\ SubmitInit /\ EnrolInit
    /\ VoiceInit /\ EchoInit
    /\ part # "ike" => home = TRUE
    /\ part # "submit" => hasQmi = TRUE
    /\ part # "enrol" => disk = Empty
    /\ <<requests, packets>> \in {<<0, MaxPackets>>, <<MaxRequests - 1, 0>>}   \* many requests, or media
    /\ part # "voice" => requests = 0
    /\ part # "echo" => line = NewEchoLine(0)

AccessNext ==
    /\ UNCHANGED part
    /\ \/ part = "arbiter" /\ ArbiterNext
          /\ UNCHANGED <<ikeVars, submitVars, enrolVars, voiceVars, echoVars>>
       \/ part = "ike" /\ IkeNext
          /\ UNCHANGED <<arbiterVars, submitVars, enrolVars, voiceVars, echoVars>>
       \/ part = "submit" /\ SubmitNext
          /\ UNCHANGED <<arbiterVars, ikeVars, enrolVars, voiceVars, echoVars>>
       \/ part = "enrol" /\ EnrolNext
          /\ UNCHANGED <<arbiterVars, ikeVars, submitVars, voiceVars, echoVars>>
       \/ part = "voice" /\ VoiceNext
          /\ UNCHANGED <<arbiterVars, ikeVars, submitVars, enrolVars, echoVars>>
       \/ part = "echo" /\ EchoNext
          /\ UNCHANGED <<arbiterVars, ikeVars, submitVars, enrolVars, voiceVars>>

\* The fairness each module asks for, in the behaviours that are of it.
AccessSpec ==
    /\ AccessInit /\ [][AccessNext]_accessVars
    /\ \A t \in Thread :
          /\ WF_arbiterVars(part = "arbiter" /\ Recheck(t))
          /\ WF_arbiterVars(part = "arbiter" /\ Release(t))
          /\ WF_arbiterVars(part = "arbiter" /\ NotifyAll(t))
    /\ WF_ikeVars(part = "ike" /\ ClientStep)
    /\ WF_ikeVars(part = "ike" /\ Expire)
    /\ WF_ikeVars(part = "ike" /\ \E n \in DOMAIN calls : ProviderTimeout(n))
    /\ WF_ikeVars(part = "ike" /\ \E n \in DOMAIN calls : Reap(n))
    /\ WF_submitVars(part = "submit" /\ SubmitStep)
    /\ WF_submitVars(part = "submit" /\ Module)
    /\ WF_enrolVars(part = "enrol" /\ EnrolStep)
    /\ SF_enrolVars(part = "enrol" /\ PlaceCa)
    /\ SF_enrolVars(part = "enrol" /\ PlaceCode)
    /\ WF_voiceVars(part = "voice" /\ VoiceStep)

\* What waits comes to an end: an IKE probe (ProbeEnds of IkeProbe), and a
\* request to the voice process (RequestsEnd of VoiceBridge).
WaitsEnd ==
    /\ part = "ike" => ProbeEnds
    /\ part = "voice" => RequestsEnd

\* The sessions with a module get back in step (StaysInStep of SmsSubmit).
SessionsStayInStep == part = "submit" => StaysInStep

\* A machine that is stopped while it enrols still gets online
\* (EnrolmentRecovers of Enrolment), and the identity it then has is kept
\* (ServingIdentityKept).
MachineEnrols ==
    /\ part = "enrol" => EnrolmentRecovers
    /\ ServingIdentityKept
=============================================================================
