----------------------------- MODULE MCJournals -----------------------------
(***************************************************************************)
(* Small instances of the two journals the agent's promises rest on: the   *)
(* uplink journal in memory, with more envelopes than sequence numbers so  *)
(* that the numbers run out, and the commands, one for the modem and one   *)
(* that is a capability matrix.  They share no state, so each is run by    *)
(* itself: `part' says which one a behaviour is of, and the other stays as *)
(* it begins.                                                              *)
(***************************************************************************)
EXTENDS UplinkState, CommandExecutor

CONSTANTS p1, m1

KindOf == [c \in Commands |-> IF c = m1 THEN "matrix" ELSE "port"]

VARIABLE part

journalsVars == <<part, uplinkVars, execVars>>

JournalsInit ==
    /\ part \in {"uplink", "commands"}
    /\ UplinkInit /\ ExecInit

JournalsNext ==
    /\ UNCHANGED part
    /\ \/ part = "uplink" /\ UplinkNext /\ UNCHANGED execVars
       \/ part = "commands" /\ ExecNext /\ UNCHANGED uplinkVars

\* The fairness of CommandExecutor, in the behaviours that are of it.
JournalsSpec ==
    /\ JournalsInit /\ [][JournalsNext]_journalsVars
    /\ WF_execVars(part = "commands" /\ DeliveryStep)
    /\ \A c \in Commands :
          /\ SF_execVars(part = "commands" /\ Deliver(c))
          /\ WF_execVars(part = "commands" /\ DrainResult(c))
=============================================================================
